---------------------------- MODULE Spec2Model ----------------------------
(***************************************************************************)
(* Model of the Security Hub export pipeline (aws-securityhub-exports):    *)
(*   - the fetchfindings Lambda (filter_data, get_sh_findings,             *)
(*     save_findings, lambda_handler),                                     *)
(*   - the generatecsv Lambda (list_s3_objects, combine_json_data,         *)
(*     write_csv_to_s3, lambda_handler),                                   *)
(*   - the sendemail Lambda (get_csv_size_s3, generate_presigned_url,      *)
(*     send_email, lambda_handler),                                        *)
(*   - the Step Functions state machine of stacks/step_stack.py,           *)
(*   - the single-step shexporter Lambda (get_findings, write_to_csv,      *)
(*     send_email_with_attachment, lambda_handler).                        *)
(*                                                                         *)
(* The specifications share the variables:                                 *)
(*   SpecFilter     : filter_data applied to bounded pages and criteria;   *)
(*   SpecSparse     : filter_data applied to one finding lacking fields;   *)
(*   SpecTags       : the standards of a finding from its id to the cell;  *)
(*   SpecAggregate  : the generatecsv handler on saved partitions;         *)
(*   SpecReaggregate: the generatecsv handler invoked more than once;      *)
(*   SpecListing    : list_s3_objects over the bucket's listing responses; *)
(*   SpecDeliver    : one invocation of the sendemail handler on an        *)
(*                    artifact whose byte size is drawn around 10 MiB;     *)
(*   Spec, SpecLive : one execution of the state machine over an S3        *)
(*                    bucket, the findings API and the calendar;           *)
(*   SpecConcurrent : two executions over the same bucket on one day;      *)
(*   SpecExporter   : one invocation of the shexporter handler.            *)
(***************************************************************************)
EXTENDS Integers, Sequences, FiniteSets, TLC

VARIABLES
    \* ---- SpecFilter: one call of filter_data
    input_list,     \* the page handed to filter_data
    criteria,       \* the four filter arguments
    filtered,       \* the outcome of filter_data, NotCalled before the call
    \* ---- SpecTags: the standards of one finding, from its id to the cell
    tags,           \* the finding id, the list extracted, the cell, the cell split
    \* ---- SpecDeliver: one invocation of sendemail.lambda_handler
    mail,           \* the invocation: event, artifact object, position, outcome
    \* ---- Spec: the state machine's executions and their environment
    today,          \* the calendar date datetime.now() formats
    shPages,        \* the findings API: the pages its listing of findings has
    listing,        \* SpecListing: the responses the bucket serves to one listing, and what was listed
    exporter,       \* SpecExporter: one invocation of shexporter.lambda_handler
    s3,             \* the bucket: object key -> object
    pc,             \* per execution: the state it is about to enter
    data,           \* per execution: the state machine's JSON document ($)
    locals,         \* per execution: the running handler's local variables
    fetchLog,       \* per execution: history of its fetch invocations
    aggLog,         \* per execution: history of its Generate CSV invocation
    outbox,         \* SES: per execution, the messages accepted from it
    failure         \* per execution: the error it failed with, "" if none

filterVars == <<input_list, criteria, filtered>>
mailVars == <<mail>>
pipeVars == <<today, shPages, listing, exporter, s3, pc, data, locals, fetchLog, aggLog, outbox, failure>>
tagVars == <<tags>>
vars == <<input_list, criteria, filtered, tags, mail, today, shPages, listing,
          exporter, s3, pc, data, locals,
          fetchLog, aggLog, outbox, failure>>

(***************************************************************************)
(* Python values.  A value that may be None is tagged with its type; a     *)
(* dict is a function from its keys; a list is a sequence.  The text of a  *)
(* finding id is a sequence of text pieces, so that `in` on strings is     *)
(* containment of a contiguous run of pieces.                              *)
(***************************************************************************)
PyNone == [type |-> "NoneType"]
PyList(items) == [type |-> "list", val |-> items]
PyStr(s) == [type |-> "str", val |-> s]
PyBool(b) == [type |-> "bool", val |-> b]
PyDict(d) == [type |-> "dict", val |-> d]

\* Python truthiness of a tagged value: None, False, "", [] and {} are falsy.
Truthy(v) ==
    CASE v.type = "NoneType" -> FALSE
      [] v.type = "bool" -> v.val
      [] v.type = "dict" -> DOMAIN v.val # {}
      [] OTHER -> v.val # <<>>

EmptyDict == <<>>

\* dict.get(key, default)
Get(d, k, default) == IF k \in DOMAIN d THEN d[k] ELSE default

\* x in <list>
InList(x, l) == \E i \in 1..Len(l) : l[i] = x

\* <str> in <str>, on texts given as sequences of pieces
IsSubstring(s, t) ==
    \E i \in 0..(Len(t) - Len(s)) : SubSeq(t, i + 1, i + Len(s)) = s

RECURSIVE Concat(_)
\* b.extend(a1); b.extend(a2); ... for a sequence of lists
Concat(ss) == IF ss = <<>> THEN <<>> ELSE Head(ss) \o Concat(Tail(ss))

SeqToSet(s) == {s[i] : i \in 1..Len(s)}


(***************************************************************************)
(* fetchfindings: the filter engine                                        *)
(***************************************************************************)
StdAfsbp == <<"aws-foundational-security-", "best-practices">>
StdTagging == <<"aws-resource-", "tagging-standard">>
StdCis == <<"cis-aws-foundations-", "benchmark">>
StdNist == <<"nist-", "800-53">>
StdPci == <<"pci-", "dss">>

known_standards == <<StdAfsbp, StdTagging, StdCis, StdNist, StdPci>>

\* [standard for standard in known_standards if standard in finding_id]
extract_security_standards_from_finding_id(finding_id) ==
    SelectSeq(known_standards, LAMBDA standard : IsSubstring(standard, finding_id))

\* One dimension of the comprehension's condition:
\*   <filter> is None or <value> in <filter>
FilterAdmits(filter, value) ==
    filter = PyNone \/ InList(value, filter.val)

\* The security-standard dimension:
\*   <filter> is None or any(standard in extract(...) for standard in <filter>)
StandardFilterAdmits(filter, finding_id) ==
    \/ filter = PyNone
    \/ \E i \in 1..Len(filter.val) :
          InList(filter.val[i], extract_security_standards_from_finding_id(finding_id))

\* The condition of the comprehension, for one item.
Passes(item, compliance_status_filter, security_standard_filter, severity_filter, workflow_status_filter) ==
    /\ FilterAdmits(severity_filter, Get(Get(item, "Severity", EmptyDict), "Label", ""))
    /\ FilterAdmits(compliance_status_filter,
                    Get(Get(item, "Compliance", EmptyDict), "Status", ""))
    /\ FilterAdmits(workflow_status_filter,
                    Get(Get(item, "Workflow", EmptyDict), "Status", ""))
    /\ StandardFilterAdmits(security_standard_filter, Get(item, "Id", <<>>))

\* item.get("Resources", [{}])[0] raises IndexError on an empty list.
NormalizeFaults(item) == Get(item, "Resources", <<EmptyDict>>) = <<>>

\* The element expression keeping the finding's Id under its own key too
Normalize_keeping_Id(item) ==
    [ Id |-> Get(item, "Id", <<>>),
      awsAccountId |-> Get(item, "AwsAccountId", ""),
      findingId |-> Get(item, "Id", <<>>),
      severity |-> Get(Get(item, "Severity", EmptyDict), "Label", ""),
      securityStandards |->
          extract_security_standards_from_finding_id(Get(item, "Id", <<>>)) ]

\* The element expression of the comprehension, for one item it can index.
Normalize(item) ==
    [ awsAccountId |-> Get(item, "AwsAccountId", ""),
      awsAccountName |-> Get(item, "AwsAccountName", ""),
      complianceStatus |-> Get(Get(item, "Compliance", EmptyDict), "Status", ""),
      controlId |-> Get(Get(item, "ProductFields", EmptyDict), "ControlId", ""),
      description |-> Get(item, "Description", ""),
      findingId |-> Get(item, "Id", <<>>),
      firstSeen |-> Get(item, "FirstObservedAt", ""),
      lastSeen |-> Get(item, "LastObservedAt", ""),
      region |-> Get(item, "Region", ""),
      remediationText |->
          Get(Get(Get(item, "Remediation", EmptyDict), "Recommendation", EmptyDict),
              "Text", ""),
      remediationUrl |->
          Get(Get(Get(item, "Remediation", EmptyDict), "Recommendation", EmptyDict),
              "Url", ""),
      resourceArn |-> Get(Get(item, "Resources", <<EmptyDict>>)[1], "Id", ""),
      severity |-> Get(Get(item, "Severity", EmptyDict), "Label", ""),
      title |-> Get(item, "Title", ""),
      workflowStatus |-> Get(Get(item, "Workflow", EmptyDict), "Status", ""),
      securityStandards |->
          extract_security_standards_from_finding_id(Get(item, "Id", <<>>)) ]

\* Outcomes of a call: a returned value or a raised exception.
Returned(v) == [raised |-> FALSE, value |-> v]
Raised(e) == [raised |-> TRUE, error |-> e]
NotCalled == [raised |-> FALSE, pending |-> TRUE]

\* filter_data building its list from the last passing item to the first
filter_data_newest_first(input, compliance_status_filter, security_standard_filter, severity_filter, workflow_status_filter) ==
    LET passing == SelectSeq(input, LAMBDA item :
                       Passes(item, compliance_status_filter, security_standard_filter,
                              severity_filter, workflow_status_filter))
        n == Len(passing)
    IN  IF \E i \in 1..n : NormalizeFaults(passing[i])
        THEN Raised("IndexError")
        ELSE Returned([i \in 1..n |-> Normalize(passing[n + 1 - i])])

\* filter_data: the comprehension evaluates the condition of each item in
\* order and the element expression of each passing item.
filter_data(input, compliance_status_filter, security_standard_filter, severity_filter, workflow_status_filter) ==
    LET passing == SelectSeq(input, LAMBDA item :
                       Passes(item, compliance_status_filter, security_standard_filter,
                              severity_filter, workflow_status_filter))
    IN  IF \E i \in 1..Len(passing) : NormalizeFaults(passing[i])
        THEN Raised("IndexError")
        ELSE Returned([i \in 1..Len(passing) |-> Normalize(passing[i])])

(***************************************************************************)
(* Raw findings and criteria the checks draw from.                         *)
(***************************************************************************)
Without(d, k) == [x \in DOMAIN d \ {k} |-> d[x]]

IdCis == <<"arn:aws:securityhub:::subscription/", "cis-aws-foundations-", "benchmark",
           "/v/1.2.0/1.1/finding/1">>
IdPciNist == <<"arn:aws:securityhub:::", "pci-", "dss", "/", "nist-", "800-53",
               "/finding/2">>
IdPartial == <<"arn:aws:securityhub:::", "pci-", "/finding/3">>

BaseFinding ==
    [ AwsAccountId |-> "111122223333",
      Compliance |-> [Status |-> "FAILED"],
      Description |-> "d",
      FirstObservedAt |-> "t0",
      Id |-> IdCis,
      LastObservedAt |-> "t1",
      ProductFields |-> [ControlId |-> "1.1"],
      Region |-> "eu-west-1",
      Remediation |-> [Recommendation |-> [Text |-> "fix", Url |-> "https://docs"]],
      Resources |-> <<[Id |-> "arn:aws:s3:::res"]>>,
      Severity |-> [Label |-> "CRITICAL"],
      Title |-> "t",
      Workflow |-> [Status |-> "NEW"] ]

\* The base finding, the base with one field changed or removed, and the
\* finding with no field at all.
RawFindings ==
    { BaseFinding,
      [BaseFinding EXCEPT !.Severity = [Label |-> "HIGH"]],
      Without(BaseFinding, "Severity"),
      [BaseFinding EXCEPT !.Compliance = [Status |-> "PASSED"]],
      [BaseFinding EXCEPT !.Workflow = [Status |-> "RESOLVED"]],
      [BaseFinding EXCEPT !.Id = IdPciNist],
      [BaseFinding EXCEPT !.Id = IdPartial],
      Without(BaseFinding, "Id"),
      [BaseFinding EXCEPT !.Resources = <<>>],
      EmptyDict }

SeverityFilters ==
    {PyNone, PyList(<<>>), PyList(<<"CRITICAL">>), PyList(<<"CRITICAL", "HIGH">>)}
ComplianceFilters == {PyNone, PyList(<<>>), PyList(<<"FAILED">>)}
WorkflowFilters == {PyNone, PyList(<<>>), PyList(<<"NEW", "NOTIFIED">>)}
StandardFilters ==
    {PyNone, PyList(<<>>), PyList(<<StdPci>>), PyList(<<StdCis, StdNist>>)}

Criteria ==
    [ compliance_status_filter : ComplianceFilters,
      security_standard_filter : StandardFilters,
      severity_filter : SeverityFilters,
      workflow_status_filter : WorkflowFilters ]

NoCriteria ==
    [ compliance_status_filter |-> PyNone, security_standard_filter |-> PyNone,
      severity_filter |-> PyNone, workflow_status_filter |-> PyNone ]

\* Longest page handed to filter_data.
MaxPageLen == 2


(***************************************************************************)
(* The environment of the state machine: calendar, bucket, findings API.   *)
(* A text built by the program is a sequence of pieces; a piece is a       *)
(* literal or a formatted number (a date, a request id, a position).       *)
(***************************************************************************)
\* Executions of the state machine that may run concurrently.
Runs == {1, 2}

\* Pages the findings API's listing has at most.
MaxPages == 3

\* Calendar days the executions may span.
MaxDay == 2

Bucket == <<"bucket">>

\* dict with d[k] = v
SetKey(d, k, v) == [x \in DOMAIN d \cup {k} |-> IF x = k THEN v ELSE d[x]]

\* s3.put_object(Key, Body): creates the object or replaces it.
PutObject(store, key, object) == SetKey(store, key, object)

\* key.startswith(prefix)
HasPrefix(key, prefix) ==
    Len(prefix) <= Len(key) /\ SubSeq(key, 1, Len(prefix)) = prefix

\* context.aws_request_id: the Lambda runtime gives every invocation an id
\* of its own; the n-th fetch invocation of execution r gets this one.
AwsRequestId(r, n) == <<"req-", r, "-", n>>

\* The bucket lists keys in key order.  The keys under a findings/ prefix
\* are partition keys, which differ in their date (piece 2) and request id
\* (pieces 5 to 8) only.
KeyBefore(k1, k2) ==
    \/ k1[2] < k2[2]
    \/ k1[2] = k2[2] /\ k1[6] < k2[6]
    \/ k1[2] = k2[2] /\ k1[6] = k2[6] /\ k1[8] < k2[8]

\* The keys of a set, in key order.
SortKeys(keys) ==
    [i \in 1..Cardinality(keys) |->
        CHOOSE k \in keys : Cardinality({before \in keys : KeyBefore(before, k)}) = i - 1]

\* Keys one list_objects_v2 response carries at most.
ListPageSize == 1000

RECURSIVE ListObjectsV2(_)
\* The responses of s3.list_objects_v2 for the keys still to list, the first
\* call first: each carries at most ListPageSize keys; an empty listing has
\* no Contents.
ListObjectsV2(keys) ==
    IF Len(keys) = 0 THEN <<[IsTruncated |-> FALSE]>>
    ELSE IF Len(keys) <= ListPageSize
    THEN <<[Contents |-> keys, IsTruncated |-> FALSE]>>
    ELSE <<[Contents |-> SubSeq(keys, 1, ListPageSize), IsTruncated |-> TRUE]>>
         \o ListObjectsV2(SubSeq(keys, ListPageSize + 1, Len(keys)))

\* Pages of raw findings the findings API may serve.
HighFinding == [BaseFinding EXCEPT !.Severity = [Label |-> "HIGH"]]
UpstreamPages == { <<>>, <<BaseFinding, HighFinding>> }

DefaultMaxResults == 100

\* securityhub.get_findings(**params) on a listing of `pages` pages: the
\* cursor tells the pages served so far; a response carries a cursor when
\* more pages remain, whatever the page holds.
SecurityHubGetFindings(params, pages) ==
    LET served == IF "NextToken" \in DOMAIN params THEN params.NextToken.val[2] ELSE 0
    IN  IF served + 1 < pages
        THEN { [Findings |-> p, NextToken |-> PyStr(<<"token-", served + 1>>)] :
                 p \in UpstreamPages }
        ELSE { [Findings |-> p] : p \in UpstreamPages }

\* securityhub.get_findings raising instead of responding.
ApiError == [Error |-> "ClientError"]

\* What an S3 call of a handler may do.
S3Outcomes == {"ok", "ClientError"}

(***************************************************************************)
(* fetchfindings: get_sh_findings, save_findings, lambda_handler           *)
(***************************************************************************)
\* findings, next_token of get_sh_findings for the API's response
get_sh_findings_swallowing(response) ==
    IF "Error" \in DOMAIN response
    THEN Returned([findings |-> <<>>, next_token |-> PyNone])
    ELSE Returned([ findings |-> response.Findings,
                    next_token |-> IF "NextToken" \in DOMAIN response
                                   THEN response.NextToken ELSE PyNone ])

\* get_sh_findings for what the API call does: findings and next_token of
\* the response, or the call's exception, logged and raised again.
get_sh_findings(response) ==
    IF "Error" \in DOMAIN response
    THEN Raised(response.Error)
    ELSE Returned([ findings |-> response.Findings,
                    next_token |-> IF "NextToken" \in DOMAIN response
                                   THEN response.NextToken ELSE PyNone ])

json_dumps(value) == [json |-> value]
json_loads(body) == body.json

\* save_findings: the object it puts, and the prefix it returns.
save_findings_counter_key(bucket_name, findings, request_id, current_date) ==
    LET prefix == <<"findings/", current_date>>
        file_name == <<"part-", "req-", 0, "-", Len(findings), ".json">>
    IN  [ Key |-> prefix \o <<"/">> \o file_name,
          Body |-> json_dumps(findings),
          prefix |-> prefix ]

save_findings(bucket_name, findings, request_id, current_date) ==
    LET prefix == <<"findings/", current_date>>
        file_name == <<"part-">> \o request_id \o <<".json">>
    IN  [ Key |-> prefix \o <<"/">> \o file_name,
          Body |-> json_dumps(findings),
          prefix |-> prefix ]

\* The params without the cursor of the event
FetchParams_without_cursor(event) ==
    [MaxResults |-> Get(event, "MaxResults", DefaultMaxResults)]

\* The params lambda_handler passes to get_sh_findings for an event.
FetchParams(event) ==
    LET next_token == Get(event, "NextToken", PyNone)
    IN  IF Truthy(next_token)
        THEN [MaxResults |-> Get(event, "MaxResults", DefaultMaxResults),
              NextToken |-> next_token]
        ELSE [MaxResults |-> Get(event, "MaxResults", DefaultMaxResults)]

\* The response payload of lambda_handler.
FetchResponsePayload_if_entries(findings, next_token, prefix) ==
    IF findings # <<>> /\ Truthy(next_token)
    THEN [NextToken |-> next_token, Prefix |-> PyStr(prefix)]
    ELSE [Prefix |-> PyStr(prefix)]

FetchResponsePayload(findings, next_token, prefix) ==
    IF Truthy(next_token)
    THEN [NextToken |-> next_token, Prefix |-> PyStr(prefix)]
    ELSE [Prefix |-> PyStr(prefix)]

\* lambda_handler for an event, the invocation's request id, what the API
\* call does, the date of the call and what the put of save_findings does:
\* the result, and the object it puts, if it gets that far.
fetchfindings_lambda_handler(event, request_id, response, current_date, put_outcome) ==
    LET bucket_name == Get(event, "BucketName", PyNone)
        got == get_sh_findings(response)
    IN  IF ~Truthy(bucket_name)
        THEN [result |-> Raised("ValueError"), put |-> <<>>, filtered |-> <<>>]
        ELSE IF got.raised
        THEN [result |-> got, put |-> <<>>, filtered |-> <<>>]
        ELSE
        LET filtered_data ==
                filter_data(got.value.findings,
                            Get(event, "ComplianceStatusFilter", PyNone),
                            Get(event, "SecurityStandardFilter", PyNone),
                            Get(event, "SeverityFilter", PyNone),
                            Get(event, "WorkflowStatusFilter", PyNone))
        IN  IF filtered_data.raised
            THEN [result |-> filtered_data, put |-> <<>>, filtered |-> <<>>]
            ELSE IF put_outcome # "ok"
            THEN \* save_findings logs the exception of s3.put_object and raises it
                 [result |-> Raised(put_outcome), put |-> <<>>,
                  filtered |-> filtered_data.value]
            ELSE
            LET saved == save_findings(bucket_name.val, filtered_data.value,
                                       request_id, current_date)
            IN  [ result |-> Returned(FetchResponsePayload(got.value.findings,
                                                           got.value.next_token,
                                                           saved.prefix)),
                  put |-> <<[Key |-> saved.Key, Body |-> saved.Body]>>,
                  filtered |-> filtered_data.value ]


(***************************************************************************)
(* generatecsv: list_s3_objects, combine_json_data, write_csv_to_s3,       *)
(* lambda_handler                                                          *)
(***************************************************************************)
RECURSIVE ListLoop(_, _, _)
\* The while loop of list_s3_objects over the responses of the listing calls:
\* it runs while the current response has Contents, and asks for the next
\* response when the current one is truncated.
ListLoop(responses, i, objects) ==
    IF Get(responses[i], "Contents", <<>>) = <<>>
    THEN objects
    ELSE IF responses[i].IsTruncated
         THEN ListLoop(responses, i + 1, objects \o responses[i].Contents)
         ELSE objects \o responses[i].Contents

\* list_s3_objects: the keys under the prefix that the loop collects from the
\* responses of the bucket.
list_s3_objects(store, prefix) ==
    CHOOSE objects \in
        { ListLoop(responses, 1, <<>>) :
          responses \in {ListObjectsV2(SortKeys({k \in DOMAIN store : HasPrefix(k, prefix)}))} } : TRUE

read_json_from_s3(store, key) == json_loads(store[key].Body)

\* combine_json_data: the keys it lists and the concatenation of what it
\* reads from them.
combine_json_data_newest_first(store, prefix) ==
    LET listed == ListObjectsV2(SortKeys({k \in DOMAIN store : HasPrefix(k, prefix)}))[1]
        json_files == Get(listed, "Contents", <<>>)
        n == Len(json_files)
    IN  [ json_files |-> json_files,
          json_data |-> Concat([i \in 1..n |-> json_loads(store[json_files[n + 1 - i]].Body)]) ]

\* (json_files is assigned once, as in the code: a name bound by a set is
\* evaluated once, a LET definition at every use.)
combine_json_data(store, prefix) ==
    CHOOSE combined \in
        { [ json_files |-> json_files,
            json_data |-> Concat([i \in 1..Len(json_files) |->
                                     read_json_from_s3(store, json_files[i])]) ] :
          json_files \in {list_s3_objects(store, prefix)} } : TRUE

headers ==
    << "awsAccountId", "awsAccountName", "complianceStatus", "controlId",
       "description", "findingId", "firstSeen", "lastSeen", "region",
       "remediationText", "remediationUrl", "resourceArn", "severity", "title",
       "workflowStatus", "securityStandards" >>

JoinTexts_no_separator(sep, texts) == Concat(texts)

RECURSIVE JoinTexts(_, _)
\* sep.join(texts)
JoinTexts(sep, texts) ==
    IF texts = <<>> THEN <<>>
    ELSE IF Len(texts) = 1 THEN texts[1]
    ELSE texts[1] \o sep \o JoinTexts(sep, Tail(texts))

\* The row csv.DictWriter writes for an item: a cell per header, "" for a
\* missing key.  The writer raises ValueError on a key that is no header.
CsvRow(item) == [h \in SeqToSet(headers) |-> Get(item, h, "")]

\* write_csv_to_s3: the CSV text it uploads, as the header and the rows.
write_csv_to_s3_header_of_first(combined, fieldnames) ==
    IF combined = <<>>
    THEN Raised("IndexError")
    ELSE Returned([ header |-> fieldnames,
                    rows |-> [i \in 1..Len(combined) |->
                                 [h \in SeqToSet(fieldnames) |-> Get(combined[i], h, "")]] ])

write_csv_to_s3(combined, fieldnames) ==
    IF \E i \in 1..Len(combined) : "securityStandards" \notin DOMAIN combined[i]
    THEN Raised("KeyError")
    ELSE IF \E i \in 1..Len(combined) :
               ~(DOMAIN combined[i] \subseteq SeqToSet(fieldnames))
    THEN Raised("ValueError")
    ELSE Returned([ header |-> fieldnames,
                    rows |-> [i \in 1..Len(combined) |->
                                 CsvRow([combined[i] EXCEPT !.securityStandards =
                                            JoinTexts(<<", ">>, @)])] ])

\* Bytes of the header line writeheader() writes.
HeaderBytes == 195

\* 10 MiB
TenMiB == 10485760

\* Rows of findings are not modelled to the byte: a row of the model counts
\* for the shortest row the writer can write (15 commas and a line end).  The
\* artifacts of Spec so stay under 10 MiB; SpecDeliver draws the artifact's
\* length on both sides of it.
CsvContentLength(csv) == HeaderBytes + 17 * Len(csv.rows)

\* The S3 calls of generatecsv, in the order it makes them.
GenerateCsvFaults == {"none", "list_objects_v2", "get_object", "put_object"}

\* lambda_handler writing the rows after those of the artifact the bucket
\* already holds under the output key
generatecsv_lambda_handler_appending(event, store, current_date, fault) ==
    LET output_csv == <<"reports/findings_report-", current_date, ".csv">>
        input_prefix == Get(event, "Prefix", PyNone)
        earlier == IF output_csv \in DOMAIN store THEN store[output_csv].Body.rows ELSE <<>>
    IN  CHOOSE out \in
          { [ result |-> Returned(PyStr(output_csv)),
              put |-> <<[Key |-> output_csv,
                         Body |-> [csv.value EXCEPT !.rows = earlier \o @]]>>,
              json_files |-> combined.json_files ] :
            combined \in {combine_json_data(store, input_prefix.val)},
            csv \in {write_csv_to_s3(combine_json_data(store, input_prefix.val).json_data, headers)} } : TRUE

\* lambda_handler for an event, on the bucket as it is, at the given date;
\* fault names the S3 call that raises, if one does.  combine_json_data and
\* write_csv_to_s3 log the exception and raise it again.  combined and csv
\* are assigned once.
generatecsv_lambda_handler(event, store, current_date, fault) ==
    LET output_csv == <<"reports/findings_report-", current_date, ".csv">>
        bucket_name == Get(event, "BucketName", PyNone)
        input_prefix == Get(event, "Prefix", PyNone)
    IN  IF ~Truthy(bucket_name) \/ ~Truthy(input_prefix)
        THEN [result |-> Raised("ValueError"), put |-> <<>>, json_files |-> <<>>]
        ELSE IF fault = "list_objects_v2"
        THEN [result |-> Raised("ClientError"), put |-> <<>>, json_files |-> <<>>]
        ELSE
        CHOOSE out \in UNION {
          { IF fault = "get_object" /\ combined.json_files # <<>>
            THEN [result |-> Raised("ClientError"), put |-> <<>>,
                  json_files |-> combined.json_files]
            ELSE IF csv.raised
            THEN [result |-> csv, put |-> <<>>, json_files |-> combined.json_files]
            ELSE IF fault = "put_object"
            THEN [result |-> Raised("ClientError"), put |-> <<>>,
                  json_files |-> combined.json_files]
            ELSE [ result |-> Returned(PyStr(output_csv)),
                   put |-> <<[Key |-> output_csv, Body |-> csv.value]>>,
                   json_files |-> combined.json_files ] :
            csv \in {write_csv_to_s3(combined.json_data, headers)} } :
            combined \in {combine_json_data(store, input_prefix.val)} } : TRUE


(***************************************************************************)
(* sendemail: get_csv_size_s3, generate_presigned_url, send_email,         *)
(* lambda_handler                                                          *)
(***************************************************************************)
\* get_csv_size_s3 on the object it gets: file_size / (1024 * 1024) > 10.
\* The quotient of an integer by a power of two is exact in floating point
\* (for lengths below 2^53), so it is kept as the fraction num/den.
get_csv_size_s3_floor(object) ==
    LET file_size == object.ContentLength
    IN  (file_size \div (1024 * 1024)) > 10

get_csv_size_s3(object) ==
    LET file_size == object.ContentLength
        file_size_mb == [num |-> file_size, den |-> 1024 * 1024]
    IN  file_size_mb.num > 10 * file_size_mb.den

\* The expiration lambda_handler asks for, in seconds.
Expiration == 84600

\* generate_presigned_url: the URL, or None when the client call raises.
generate_presigned_url(bucket_name, key, expiration, signed) ==
    IF signed
    THEN PyStr(<<"https://">> \o bucket_name \o <<"/">> \o key
               \o <<"?X-Amz-Expires=", expiration>>)
    ELSE PyNone

\* f"{file_size_mb:.2f}" for the value lambda_handler passes, the answer of
\* get_csv_size_s3: a bool formats as the int it is, True as 1.00 and False
\* as 0.00.  The text is kept as its whole part and its two decimals.
FormatFixed2(file_size_mb) ==
    IF file_size_mb = TRUE THEN [whole |-> 1, decimals |-> 0]
    ELSE [whole |-> 0, decimals |-> 0]

\* What the SES call of send_email may do.
SesOutcomes == {"sent", "ClientError", "EndpointConnectionError"}

\* send_email for the outcome of its SES call: what it returns or raises and
\* the message SES accepted, if any.
send_email_swallowing(body_text, recipient_emails, sender_email, subject, csv_content, bucket_name, file_size_mb, key, presigned_url, ses) ==
    [ ret |-> Returned(PyBool(TRUE)),
      sent |-> IF ses = "sent"
               THEN << [ composition |-> IF Truthy(presigned_url) THEN "link"
                                          ELSE "attachment",
                         Source |-> sender_email,
                         Destinations |-> recipient_emails,
                         Subject |-> subject,
                         csv_content |-> csv_content ] >>
               ELSE <<>> ]

send_email(body_text, recipient_emails, sender_email, subject, csv_content, bucket_name, file_size_mb, key, presigned_url, ses) ==
    IF ~Truthy(presigned_url)
    THEN \* ses.send_raw_email: text/plain body part and text/csv attachment
         LET message == [ composition |-> "attachment",
                          Source |-> sender_email,
                          Destinations |-> recipient_emails,
                          Subject |-> subject,
                          body_text |-> body_text,
                          csv_content |-> csv_content ]
         IN  CASE ses = "sent" ->
                    [ret |-> Returned(PyDict([MessageId |-> "id"])), sent |-> <<message>>]
               [] ses = "ClientError" ->
                    \* logged with e.response['Error']['Message']
                    [ret |-> Returned(PyBool(FALSE)), sent |-> <<>>]
               [] OTHER ->
                    \* the exception has no response attribute: the handler of
                    \* the except clause raises AttributeError
                    [ret |-> Raised("AttributeError"), sent |-> <<>>]
    ELSE \* ses.send_email: templated text body with the URL
         LET message == [ composition |-> "link",
                          Source |-> sender_email,
                          Destinations |-> recipient_emails,
                          Subject |-> subject,
                          presigned_url |-> presigned_url,
                          file_size_mb |-> file_size_mb,
                          file_size_text |-> FormatFixed2(file_size_mb),
                          bucket_name |-> bucket_name,
                          key |-> key ]
         IN  IF ses = "sent"
             THEN \* no return statement on this path
                  [ret |-> Returned(PyNone), sent |-> <<message>>]
             ELSE [ret |-> Returned(PyBool(FALSE)), sent |-> <<>>]

\* The first part of lambda_handler: the event's fields and their checks.
SendEmailFieldsMissing(event) ==
    \/ ~Truthy(Get(event, "BucketName", PyNone))
    \/ ~Truthy(Get(event, "OutputCsv", PyNone))
    \/ ~Truthy(Get(event, "SenderEmail", PyNone))
    \/ ~Truthy(Get(event, "RecipientEmails", PyNone))

\* read_csv_from_s3 on the object it gets
read_csv_from_s3(object) == object.Body

\* lambda_handler from the size check on, for the csv_data read before, the
\* object the size check gets, and the outcomes of the presigning and of the
\* SES call: the result, the message sent, and the size check's answer.
sendemail_lambda_handler(event, csv_data, object, signed, ses) ==
    LET body_text == Get(event, "BodyText", PyNone)
        subject == Get(event, "Subject", PyNone)
        bucket_name == event.BucketName.val
        output_csv == event.OutputCsv.val
        sender_email == event.SenderEmail
        recipient_emails == event.RecipientEmails
        file_size == get_csv_size_s3(object)
        sending ==
            IF ~file_size
            THEN send_email(body_text, recipient_emails, sender_email, subject,
                            csv_data, PyNone, PyNone, PyNone, PyNone, ses)
            ELSE send_email(body_text, recipient_emails, sender_email, subject,
                            PyNone, bucket_name, file_size, output_csv,
                            generate_presigned_url(bucket_name, output_csv,
                                                   Expiration, signed),
                            ses)
    IN  [ result |->
              IF sending.ret.raised THEN sending.ret
              ELSE IF Truthy(sending.ret.value)
                   THEN Returned([statusCode |-> 200])
                   ELSE Returned([statusCode |-> 500]),
          sent |-> sending.sent,
          file_size |-> file_size ]


(***************************************************************************)
(* step_stack: the states of the state machine, as functions of its JSON   *)
(* document                                                                *)
(***************************************************************************)
DefaultParameters ==
    [ BodyText |-> PyStr(<<"Please find the attached CSV file containing the filtered AWS Security Hub findings.">>),
      ComplianceStatusFilter |-> PyNone,
      SecurityStandardFilter |-> PyNone,
      SeverityFilter |-> PyNone,
      WorkflowStatusFilter |-> PyNone,
      Subject |-> PyStr(<<"AWS Security Hub Findings">>) ]

\* States.JsonMerge with the first document's value where both have one
JsonMerge_first_wins(a, b) ==
    [k \in DOMAIN a \cup DOMAIN b |-> IF k \in DOMAIN a THEN a[k] ELSE b[k]]

\* States.JsonMerge(a, b, false): the keys of both, b's value where both have one
JsonMerge(a, b) ==
    [k \in DOMAIN a \cup DOMAIN b |-> IF k \in DOMAIN b THEN b[k] ELSE a[k]]

\* Pass state "Initialize Defaults", result_path $.Parameters
initialize_defaults(doc, execution_input) ==
    SetKey(doc, "Parameters",
           [MergedParameters |-> JsonMerge(DefaultParameters, execution_input)])

ParameterNames ==
    { "BodyText", "ComplianceStatusFilter", "SecurityStandardFilter", "SeverityFilter",
      "Subject", "WorkflowStatusFilter" }

\* Pass state "Set Missing Parameters", result_path $.Parameters
set_missing_parameters(doc) ==
    SetKey(doc, "Parameters",
           [k \in ParameterNames |-> doc.Parameters.MergedParameters[k]])

\* Payload of "Fetch Findings without Token"
fetch_findings_without_token(doc) ==
    [ BodyText |-> doc.Parameters.BodyText,
      BucketName |-> doc.BucketName,
      ComplianceStatusFilter |-> doc.Parameters.ComplianceStatusFilter,
      RecipientEmails |-> doc.RecipientEmails,
      SecurityStandardFilter |-> doc.Parameters.SecurityStandardFilter,
      SenderEmail |-> doc.SenderEmail,
      SeverityFilter |-> doc.Parameters.SeverityFilter,
      Subject |-> doc.Parameters.Subject,
      WorkflowStatusFilter |-> doc.Parameters.WorkflowStatusFilter ]

\* Payload of "Fetch Findings with Token" without the four filters
fetch_findings_with_token_without_filters(doc) ==
    [ BodyText |-> doc.Parameters.BodyText,
      BucketName |-> doc.BucketName,
      NextToken |-> doc.TaskOutput.Payload.NextToken,
      RecipientEmails |-> doc.RecipientEmails,
      SenderEmail |-> doc.SenderEmail,
      Subject |-> doc.Parameters.Subject ]

\* Payload of "Fetch Findings with Token"
fetch_findings_with_token(doc) ==
    SetKey(fetch_findings_without_token(doc), "NextToken",
           doc.TaskOutput.Payload.NextToken)

\* Payload of "Generate CSV"
generate_csv(doc) ==
    [ BucketName |-> doc.BucketName, Prefix |-> doc.TaskOutput.Payload.Prefix ]

\* Payload of "Send Email"
send_email_payload(doc) ==
    [ BodyText |-> doc.Parameters.BodyText,
      BucketName |-> doc.BucketName,
      OutputCsv |-> doc.OutputCsv.Payload,
      RecipientEmails |-> doc.RecipientEmails,
      SenderEmail |-> doc.SenderEmail,
      Subject |-> doc.Parameters.Subject ]

RECURSIVE PathPresent(_, _)
\* A JSONPath $.a.b... selects a value of the document.
PathPresent(doc, path) ==
    IF path = <<>> THEN TRUE
    ELSE Head(path) \in DOMAIN doc /\ PathPresent(doc[Head(path)], Tail(path))

\* The paths the payload of each task state reads.  A task state whose
\* payload reads a path the document lacks fails with States.Runtime and
\* does not invoke its function.
PayloadPaths(state) ==
    LET fetch == { <<"Parameters", k>> : k \in ParameterNames }
                 \cup { <<"BucketName">>, <<"RecipientEmails">>, <<"SenderEmail">> }
    IN  CASE state = "FetchFindingsWithoutToken" -> fetch
          [] state = "FetchFindingsWithToken" ->
                fetch \cup { <<"TaskOutput", "Payload", "NextToken">> }
          [] state = "GenerateCsv" ->
                { <<"BucketName">>, <<"TaskOutput", "Payload", "Prefix">> }
          [] state = "SendEmail" ->
                { <<"Parameters", "BodyText">>, <<"Parameters", "Subject">>,
                  <<"BucketName">>, <<"OutputCsv", "Payload">>,
                  <<"RecipientEmails">>, <<"SenderEmail">> }

PayloadResolves(state, doc) == \A path \in PayloadPaths(state) : PathPresent(doc, path)

\* The output of a LambdaInvoke task for the function's result
TaskOutputOf(payload) == [Payload |-> payload, StatusCode |-> 200]

\* Choice state "Check for NextToken": the state it goes to
check_for_next_token_wrong_path(doc) ==
    IF "NextToken" \in DOMAIN doc.TaskOutput
    THEN "FetchFindingsWithToken"
    ELSE "GenerateCsv"

check_for_next_token_swapped(doc) ==
    IF "NextToken" \in DOMAIN doc.TaskOutput.Payload
    THEN "GenerateCsv"
    ELSE "FetchFindingsWithToken"

check_for_next_token(doc) ==
    IF "NextToken" \in DOMAIN doc.TaskOutput.Payload
    THEN "FetchFindingsWithToken"
    ELSE "GenerateCsv"

\* workflow_definition: the state that follows a state that succeeded.
workflow_definition_without_aggregate(state, doc) ==
    CASE state = "InitializeDefaults" -> "SetMissingParameters"
      [] state = "SetMissingParameters" -> "FetchFindingsWithoutToken"
      [] state = "FetchFindingsWithoutToken" -> "CheckForNextToken"
      [] state = "FetchFindingsWithToken" -> "CheckForNextToken"
      [] state = "CheckForNextToken" ->
            IF check_for_next_token(doc) = "GenerateCsv" THEN "SendEmail"
            ELSE check_for_next_token(doc)
      [] state = "GenerateCsv" -> "SendEmail"
      [] state = "SendEmail" -> "Succeeded"

workflow_definition(state, doc) ==
    CASE state = "InitializeDefaults" -> "SetMissingParameters"
      [] state = "SetMissingParameters" -> "FetchFindingsWithoutToken"
      [] state = "FetchFindingsWithoutToken" -> "CheckForNextToken"
      [] state = "FetchFindingsWithToken" -> "CheckForNextToken"
      [] state = "CheckForNextToken" -> check_for_next_token(doc)
      [] state = "GenerateCsv" -> "SendEmail"
      [] state = "SendEmail" -> "Succeeded"

\* Execution inputs the checks draw from.
BaseInput ==
    [ BucketName |-> PyStr(Bucket),
      RecipientEmails |-> PyList(<< <<"a@example.com">>, <<"b@example.com">> >>),
      SenderEmail |-> PyStr(<<"sender@example.com">>) ]

\* Inputs with the required fields: without optional key, with a filter,
\* with a body text and a null subject.
ExecutionInputs ==
    { BaseInput, SetKey(BaseInput, "SeverityFilter", PyList(<<"CRITICAL">>)) }

CustomInput ==
    [ BodyText |-> PyStr(<<"Findings of the week.">>),
      BucketName |-> PyStr(Bucket),
      ComplianceStatusFilter |-> PyList(<<"FAILED">>),
      RecipientEmails |-> PyList(<< <<"a@example.com">> >>),
      SenderEmail |-> PyStr(<<"sender@example.com">>),
      SeverityFilter |-> PyNone,
      Subject |-> PyNone ]

\* Inputs with a required field absent, null or empty.
DeficientInputs ==
    { Without(BaseInput, "BucketName"),
      SetKey(BaseInput, "BucketName", PyStr(<<>>)),
      Without(BaseInput, "SenderEmail"),
      SetKey(BaseInput, "SenderEmail", PyStr(<<>>)),
      Without(BaseInput, "RecipientEmails"),
      SetKey(BaseInput, "RecipientEmails", PyList(<<>>)),
      SetKey(BaseInput, "RecipientEmails", PyNone) }

\* The inputs of a single execution.
TriggerInputs == ExecutionInputs \cup {CustomInput} \cup DeficientInputs


(***************************************************************************)
(* Spec: executions of the state machine                                   *)
(***************************************************************************)
NoLocals == [csv_data |-> PyNone]

IdleFilter ==
    /\ input_list = <<>>
    /\ criteria = NoCriteria
    /\ filtered = NotCalled

IdleMail == mail = [pc |-> "idle"]

IdleTags == tags = [pc |-> "idle"]

\* The executions in Started are started with one input; the bucket is
\* empty.
PipeInit(Started, Inputs) ==
    /\ today = 1
    /\ shPages \in IF Started = {} THEN {1} ELSE 1..MaxPages
    /\ listing = [pc |-> "idle"]
    /\ exporter = [pc |-> "idle"]
    /\ s3 = <<>>
    /\ pc = [r \in Runs |-> IF r \in Started THEN "InitializeDefaults" ELSE "NotStarted"]
    /\ \E input \in Inputs :
          data = [r \in Runs |-> IF r \in Started THEN input ELSE EmptyDict]
    /\ locals = [r \in Runs |-> NoLocals]
    /\ fetchLog = [r \in Runs |-> <<>>]
    /\ aggLog = [r \in Runs |-> <<>>]
    /\ outbox = [r \in Runs |-> <<>>]
    /\ failure = [r \in Runs |-> ""]

\* One execution.
Init == IdleFilter /\ IdleTags /\ IdleMail /\ PipeInit({1}, TriggerInputs)

\* Midnight passes.
Tick ==
    /\ today < MaxDay
    /\ today' = today + 1
    /\ UNCHANGED <<filterVars, tagVars, mailVars, shPages, listing, exporter, failure, s3, pc, data, locals, fetchLog, aggLog, outbox>>

\* The execution fails with an error: no state is entered any more.
Fail(r, error) ==
    /\ pc' = [pc EXCEPT ![r] = "Failed"]
    /\ failure' = [failure EXCEPT ![r] = error]

\* The execution starts in "Initialize Defaults" with its input as document.
InitializeDefaults(r) ==
    /\ pc[r] = "InitializeDefaults"
    /\ data' = [data EXCEPT ![r] = initialize_defaults(@, @)]
    /\ pc' = [pc EXCEPT ![r] = workflow_definition("InitializeDefaults", data'[r])]
    /\ UNCHANGED <<filterVars, tagVars, mailVars, today, shPages, listing, exporter, failure, s3, locals, fetchLog, aggLog, outbox>>

SetMissingParameters(r) ==
    /\ pc[r] = "SetMissingParameters"
    /\ data' = [data EXCEPT ![r] = set_missing_parameters(@)]
    /\ pc' = [pc EXCEPT ![r] = workflow_definition("SetMissingParameters", data'[r])]
    /\ UNCHANGED <<filterVars, tagVars, mailVars, today, shPages, listing, exporter, failure, s3, locals, fetchLog, aggLog, outbox>>

\* A task state whose payload does not resolve: the execution fails and the
\* function is not invoked.
PayloadFails(r) ==
    /\ Fail(r, "States.Runtime")
    /\ UNCHANGED <<filterVars, tagVars, mailVars, today, shPages, listing, exporter, s3, data, locals, fetchLog, aggLog, outbox>>

\* One invocation of the fetchfindings function by a LambdaInvoke task with
\* result_path $.TaskOutput.  The API call may fail, and if it does not, the
\* put, if the function gets to it, may fail; an error of
\* the function fails the execution (the tasks have no retry on function
\* errors and no catch).
InvokeFetchFindings(r, state) ==
    LET event == IF state = "FetchFindingsWithoutToken"
                 THEN fetch_findings_without_token(data[r])
                 ELSE fetch_findings_with_token(data[r])
    IN  \E response \in SecurityHubGetFindings(FetchParams(event), shPages) \cup {ApiError} :
        \E put_outcome \in IF "Error" \in DOMAIN response THEN {"ok"} ELSE S3Outcomes :
        LET request_id == AwsRequestId(r, Len(fetchLog[r]) + 1)
            out == fetchfindings_lambda_handler(event, request_id, response, today,
                                                put_outcome)
            entry == [ state |-> state,
                       event |-> event,
                       request_id |-> request_id,
                       token_in |-> Get(FetchParams(event), "NextToken", PyNone),
                       cursor |-> Get(response, "NextToken", PyNone),
                       entries |-> Len(Get(response, "Findings", <<>>)),
                       kept |-> Len(out.filtered),
                       date |-> today,
                       put |-> out.put,
                       overwrote |-> out.put # <<>> /\ out.put[1].Key \in DOMAIN s3,
                       injected |-> IF "Error" \in DOMAIN response THEN "get_findings"
                                    ELSE IF put_outcome # "ok" THEN "put_object"
                                    ELSE "none",
                       result |-> out.result ]
        IN  /\ s3' = IF out.put = <<>> THEN s3
                     ELSE PutObject(s3, out.put[1].Key, [Body |-> out.put[1].Body])
            /\ fetchLog' = [fetchLog EXCEPT ![r] = Append(@, entry)]
            /\ IF out.result.raised
               THEN /\ Fail(r, out.result.error)
                    /\ data' = data
               ELSE /\ data' = [data EXCEPT ![r] =
                                   SetKey(@, "TaskOutput", TaskOutputOf(out.result.value))]
                    /\ pc' = [pc EXCEPT ![r] = workflow_definition(state, data'[r])]
                    /\ failure' = failure
            /\ UNCHANGED <<filterVars, tagVars, mailVars, today, shPages, listing, exporter, locals, aggLog, outbox>>

FetchFindingsWithoutToken(r) ==
    /\ pc[r] = "FetchFindingsWithoutToken"
    /\ IF PayloadResolves("FetchFindingsWithoutToken", data[r])
       THEN InvokeFetchFindings(r, "FetchFindingsWithoutToken")
       ELSE PayloadFails(r)

FetchFindingsWithToken(r) ==
    /\ pc[r] = "FetchFindingsWithToken"
    /\ IF PayloadResolves("FetchFindingsWithToken", data[r])
       THEN InvokeFetchFindings(r, "FetchFindingsWithToken")
       ELSE PayloadFails(r)

CheckForNextToken(r) ==
    /\ pc[r] = "CheckForNextToken"
    /\ pc' = [pc EXCEPT ![r] = workflow_definition("CheckForNextToken", data[r])]
    /\ UNCHANGED <<filterVars, tagVars, mailVars, today, shPages, listing, exporter, failure, s3, data, locals, fetchLog, aggLog, outbox>>

\* One invocation of the generatecsv function, result_path $.OutputCsv.  The
\* listing and the reads see the objects under the prefix, which no later
\* put replaces or removes.
InvokeGenerateCsvTask(r) ==
    \E fault \in GenerateCsvFaults :
       \E out \in {generatecsv_lambda_handler(generate_csv(data[r]), s3, today, fault)} :
       LET event == generate_csv(data[r])
           entry == [ date |-> today,
                      prefix |-> event.Prefix,
                      json_files |-> out.json_files,
                      put |-> out.put,
                      injected |-> fault,
                      result |-> out.result ]
       IN  /\ aggLog' = [aggLog EXCEPT ![r] = Append(@, entry)]
           /\ IF out.result.raised
              THEN /\ Fail(r, out.result.error)
                   /\ UNCHANGED <<s3, data>>
              ELSE /\ s3' = PutObject(s3, out.put[1].Key,
                                      [ Body |-> out.put[1].Body,
                                        ContentLength |->
                                            CsvContentLength(out.put[1].Body) ])
                   /\ data' = [data EXCEPT ![r] =
                                  SetKey(@, "OutputCsv", TaskOutputOf(out.result.value))]
                   /\ pc' = [pc EXCEPT ![r] = workflow_definition("GenerateCsv", data'[r])]
                   /\ failure' = failure
           /\ UNCHANGED <<filterVars, tagVars, mailVars, today, shPages, listing, exporter, locals, fetchLog, outbox>>

GenerateCsv(r) ==
    /\ pc[r] = "GenerateCsv"
    /\ IF PayloadResolves("GenerateCsv", data[r])
       THEN InvokeGenerateCsvTask(r)
       ELSE PayloadFails(r)

\* The sendemail function up to read_csv_from_s3.
SendEmail(r) ==
    /\ pc[r] = "SendEmail"
    /\ IF ~PayloadResolves("SendEmail", data[r])
       THEN PayloadFails(r)
       ELSE LET event == send_email_payload(data[r])
            IN  /\ IF SendEmailFieldsMissing(event)
                   THEN /\ Fail(r, "ValueError")
                        /\ locals' = locals
                   ELSE /\ pc' = [pc EXCEPT ![r] = "SendEmailSizeCheck"]
                        /\ failure' = failure
                        /\ locals' = [locals EXCEPT ![r] =
                                         [csv_data |->
                                             read_csv_from_s3(s3[event.OutputCsv.val])]]
                /\ UNCHANGED <<filterVars, tagVars, mailVars, today, shPages, listing, exporter, s3, data, fetchLog, aggLog, outbox>>

\* The sendemail function from get_csv_size_s3 to its return; the task has
\* no result_path and is the last state.
SendEmailSizeCheck(r) ==
    /\ pc[r] = "SendEmailSizeCheck"
    /\ \E signed \in BOOLEAN, ses \in SesOutcomes :
          LET event == send_email_payload(data[r])
              object == s3[event.OutputCsv.val]
              out == sendemail_lambda_handler(event, locals[r].csv_data, object,
                                              signed, ses)
          IN  /\ outbox' = [outbox EXCEPT ![r] = @ \o out.sent]
              /\ IF out.result.raised
                 THEN /\ Fail(r, out.result.error)
                      /\ data' = data
                 ELSE /\ data' = [data EXCEPT ![r] = TaskOutputOf(out.result.value)]
                      /\ pc' = [pc EXCEPT ![r] = workflow_definition("SendEmail", data'[r])]
                      /\ failure' = failure
    /\ locals' = [locals EXCEPT ![r] = NoLocals]
    /\ UNCHANGED <<filterVars, tagVars, mailVars, today, shPages, listing, exporter, s3, fetchLog, aggLog>>

\* A state of execution r is entered.
Step(r) ==
    \/ InitializeDefaults(r)
    \/ SetMissingParameters(r)
    \/ FetchFindingsWithoutToken(r)
    \/ FetchFindingsWithToken(r)
    \/ CheckForNextToken(r)
    \/ GenerateCsv(r)
    \/ SendEmail(r)
    \/ SendEmailSizeCheck(r)

Next == Tick \/ Step(1)

Spec == Init /\ [][Next]_vars

\* The Step Functions service enters the next state of an execution that is
\* not over; nothing makes midnight pass.
SpecLive == Init /\ [][Next]_vars /\ WF_vars(Step(1))

\* Two executions started on the same bucket, on one day.
InitConcurrent == IdleFilter /\ IdleTags /\ IdleMail /\ PipeInit(Runs, {BaseInput})

NextConcurrent == \E r \in Runs : Step(r)

SpecConcurrent == InitConcurrent /\ [][NextConcurrent]_vars

(***************************************************************************)
(* SpecFilter: a page is built item by item, then filter_data is called    *)
(* on it with criteria fixed at the start.                                 *)
(***************************************************************************)
InitFilter ==
    /\ input_list = <<>>
    /\ criteria \in Criteria
    /\ filtered = NotCalled
    /\ IdleTags
    /\ IdleMail
    /\ PipeInit({}, ExecutionInputs)

AddItem ==
    /\ filtered = NotCalled
    /\ Len(input_list) < MaxPageLen
    /\ \E item \in RawFindings : input_list' = Append(input_list, item)
    /\ UNCHANGED <<criteria, filtered, tagVars, mailVars, pipeVars>>

CallFilterData ==
    /\ filtered = NotCalled
    /\ filtered' = filter_data(input_list,
                               criteria.compliance_status_filter,
                               criteria.security_standard_filter,
                               criteria.severity_filter,
                               criteria.workflow_status_filter)
    /\ UNCHANGED <<input_list, criteria, tagVars, mailVars, pipeVars>>

NextFilter == AddItem \/ CallFilterData

SpecFilter == InitFilter /\ [][NextFilter]_vars

(***************************************************************************)
(* SpecDeliver: one invocation of the sendemail function on an artifact    *)
(* of a given byte length.                                                 *)
(***************************************************************************)
\* Byte lengths of the artifact: none, small, and around 10 MiB.
ArtifactLengths ==
    { 0, 1, HeaderBytes, 9 * 1024 * 1024, TenMiB - 1, TenMiB, TenMiB + 1,
      11 * 1024 * 1024 }

ArtifactKey == <<"reports/findings_report-", 1, ".csv">>

\* The artifact of a given length; its text is known by its length only.
ArtifactObject(n) == [Body |-> [csv_text_of_bytes |-> n], ContentLength |-> n]

DeliverEvents ==
    { [ BodyText |-> body,
        BucketName |-> PyStr(Bucket),
        OutputCsv |-> PyStr(ArtifactKey),
        RecipientEmails |-> PyList(to),
        SenderEmail |-> PyStr(<<"sender@example.com">>),
        Subject |-> DefaultParameters.Subject ] :
      body \in {DefaultParameters.BodyText, PyNone},
      to \in { << <<"a@example.com">> >>,
               << <<"a@example.com">>, <<"b@example.com">> >> } }

InitDeliver ==
    /\ IdleFilter
    /\ IdleTags
    /\ PipeInit({}, ExecutionInputs)
    /\ \E event \in DeliverEvents, n \in ArtifactLengths :
          mail = [ pc |-> "start", event |-> event, object |-> ArtifactObject(n),
                   csv_data |-> PyNone ]

\* lambda_handler up to read_csv_from_s3
DeliverRead ==
    /\ mail.pc = "start"
    /\ mail' = IF SendEmailFieldsMissing(mail.event)
               THEN [ pc |-> "done", event |-> mail.event, object |-> mail.object,
                      result |-> Raised("ValueError"), sent |-> <<>> ]
               ELSE [mail EXCEPT !.pc = "sizecheck",
                                 !.csv_data = read_csv_from_s3(mail.object)]
    /\ UNCHANGED <<filterVars, tagVars, pipeVars>>

\* lambda_handler from get_csv_size_s3 to its return
DeliverSizeCheck ==
    /\ mail.pc = "sizecheck"
    /\ \E signed \in BOOLEAN, ses \in SesOutcomes :
          LET out == sendemail_lambda_handler(mail.event, mail.csv_data, mail.object,
                                              signed, ses)
          IN  mail' = [ pc |-> "done", event |-> mail.event, object |-> mail.object,
                        signed |-> signed, ses |-> ses, file_size |-> out.file_size,
                        result |-> out.result, sent |-> out.sent ]
    /\ UNCHANGED <<filterVars, tagVars, pipeVars>>

NextDeliver == DeliverRead \/ DeliverSizeCheck

SpecDeliver == InitDeliver /\ [][NextDeliver]_vars

(***************************************************************************)
(* Properties of filter_data (SpecFilter)                                  *)
(***************************************************************************)
\* A criterion constrains when it is given and has values.
Constrains(filter) == filter # PyNone /\ filter.val # <<>>

\* The finding meets every criterion that constrains: its value is one of the
\* criterion's values; for standards, a requested one is among its tags.
MeetsCriteria(item, c) ==
    /\ Constrains(c.severity_filter) =>
          InList(Get(Get(item, "Severity", EmptyDict), "Label", ""), c.severity_filter.val)
    /\ Constrains(c.compliance_status_filter) =>
          InList(Get(Get(item, "Compliance", EmptyDict), "Status", ""),
                 c.compliance_status_filter.val)
    /\ Constrains(c.workflow_status_filter) =>
          InList(Get(Get(item, "Workflow", EmptyDict), "Status", ""),
                 c.workflow_status_filter.val)
    /\ Constrains(c.security_standard_filter) =>
          \E i \in 1..Len(c.security_standard_filter.val) :
             InList(c.security_standard_filter.val[i],
                    extract_security_standards_from_finding_id(Get(item, "Id", <<>>)))

\* C1: filter_data keeps a finding if and only if the finding meets every
\* criterion that is non-empty; an absent or empty criterion constrains
\* nothing.  Stated on a call that returned: what it returns is, in order,
\* the normalized findings of the page that meet the non-empty criteria.
C1_KeepsIffNonEmptyCriteriaMet ==
    (/\ filtered # NotCalled
     /\ ~filtered.raised
     /\ \A i \in 1..Len(input_list) : ~NormalizeFaults(input_list[i]))
    => LET meeting == SelectSeq(input_list, LAMBDA item : MeetsCriteria(item, criteria))
       IN  filtered.value = [i \in 1..Len(meeting) |-> Normalize(meeting[i])]

(***************************************************************************)
(* Properties of the pagination loop (Spec)                                *)
(***************************************************************************)
\* The latest fetch invocation of execution r.
LastFetch(r) == fetchLog[r][Len(fetchLog[r])]

\* C2: after a fetch stage the execution goes to "Fetch Findings with Token"
\* if and only if the API's response of that stage carried a cursor, and to
\* "Generate CSV" if and only if it carried none, whatever the page held; the
\* handler returns {NextToken, Prefix} exactly when the response carried a
\* cursor and {Prefix} otherwise.
C2_LoopsIffCursor ==
    \A r \in Runs :
       /\ pc[r] = "CheckForNextToken" =>
             /\ DOMAIN data[r].TaskOutput.Payload =
                   IF LastFetch(r).cursor # PyNone THEN {"NextToken", "Prefix"}
                   ELSE {"Prefix"}
             /\ LastFetch(r).cursor # PyNone =>
                   data[r].TaskOutput.Payload.NextToken = LastFetch(r).cursor
       /\ pc[r] = "FetchFindingsWithToken" => LastFetch(r).cursor # PyNone
       /\ pc[r] = "GenerateCsv" => LastFetch(r).cursor = PyNone

\* A page with no entries and a cursor has sent the execution back to
\* "Fetch Findings with Token".
C2_EmptyPageWithCursorLoops ==
    /\ pc[1] = "FetchFindingsWithToken"
    /\ LastFetch(1).entries = 0
    /\ LastFetch(1).cursor # PyNone

\* The execution has left the loop: it is in or past "Generate CSV".
LeftLoop(r) ==
    \/ pc[r] \in {"GenerateCsv", "SendEmail", "SendEmailSizeCheck", "Succeeded"}
    \/ pc[r] = "Failed" /\ aggLog[r] # <<>>

\* The keys of the partitions in the bucket.
PartitionKeys == {k \in DOMAIN s3 : k[1] = "findings/"}

\* C3: when the API's listing has N pages, the execution that has left the
\* loop has made exactly N fetch invocations and the bucket holds exactly N
\* partitions, one per page, a page that kept no finding included; no
\* execution ever makes more than N.
C3_OnePartitionPerPage ==
    /\ \A r \in Runs : Len(fetchLog[r]) <= shPages
    /\ LeftLoop(1) =>
          /\ Len(fetchLog[1]) = shPages
          /\ \A i \in 1..shPages : Len(fetchLog[1][i].put) = 1
          /\ PartitionKeys = {fetchLog[1][i].put[1].Key : i \in 1..shPages}
          /\ Cardinality(PartitionKeys) = shPages

\* Three pages were fetched, one of which kept no finding, and the execution
\* is in "Generate CSV".
C3_ThreePagesOneEmpty ==
    /\ pc[1] = "GenerateCsv"
    /\ shPages = 3
    /\ Len(fetchLog[1]) = 3
    /\ \E i \in 1..3 : fetchLog[1][i].kept = 0
    /\ Cardinality(PartitionKeys) = 3

(***************************************************************************)
(* Properties of the namespace and of the aggregation (Spec,               *)
(* SpecConcurrent)                                                         *)
(***************************************************************************)
\* The prefix of a partition's key: "findings/" and the date.
PrefixOf(key) == SubSeq(key, 1, 2)

\* The keys execution r's fetch invocations wrote.
WrittenBy(r) ==
    {fetchLog[r][i].put[1].Key : i \in {j \in 1..Len(fetchLog[r]) : fetchLog[r][j].put # <<>>}}

\* C4: the partitions written during one execution all have the same
\* findings/<date> prefix, also when midnight passes between two of its fetch
\* invocations.
C4_OneNamespacePerRun ==
    \A r \in Runs : \A k1, k2 \in WrittenBy(r) : PrefixOf(k1) = PrefixOf(k2)

\* The records of the partition under a key, as rows of the artifact.
RowsOf(key) ==
    LET items == json_loads(s3[key].Body)
    IN  {CsvRow([items[i] EXCEPT !.securityStandards = JoinTexts(<<", ">>, @)]) :
            i \in 1..Len(items)}

\* C5: the artifact an execution's "Generate CSV" produced was aggregated
\* from every partition the execution's fetch invocations wrote, and has
\* their records.
C5_AggregatesEveryPartitionOfRun ==
    \A r \in Runs :
       (aggLog[r] # <<>> /\ ~aggLog[r][1].result.raised) =>
          \A k \in WrittenBy(r) :
             /\ k \in SeqToSet(aggLog[r][1].json_files)
             /\ RowsOf(k) \subseteq SeqToSet(aggLog[r][1].put[1].Body.rows)

\* C6: the artifact an execution's "Generate CSV" produced was aggregated
\* from no partition that another execution wrote.
C6_AggregatesNoPartitionOfOtherRun ==
    \A r \in Runs :
       aggLog[r] # <<>> =>
          \A k \in SeqToSet(aggLog[r][1].json_files) :
             \A q \in Runs \ {r} : k \notin WrittenBy(q)

\* The fetch invocations that put a partition.
Puts == {ri \in Runs \X (1..MaxPages) :
            ri[2] <= Len(fetchLog[ri[1]]) /\ fetchLog[ri[1]][ri[2]].put # <<>>}

\* C7: two distinct fetch invocations, of one execution or of two, put their
\* partitions under distinct keys, and no put replaces a partition.
C7_DistinctKeysPerInvocation ==
    /\ \A a, b \in Puts :
          a # b => fetchLog[a[1]][a[2]].put[1].Key # fetchLog[b[1]][b[2]].put[1].Key
    /\ \A a \in Puts : ~fetchLog[a[1]][a[2]].overwrote

\* Both executions have put partitions under the same prefix, one of them two.
C7_TwoRunsSameNamespace ==
    /\ Len(fetchLog[1]) >= 2
    /\ Len(fetchLog[2]) >= 1
    /\ Cardinality(WrittenBy(1) \cup WrittenBy(2)) >= 3
    /\ \A k1, k2 \in WrittenBy(1) \cup WrittenBy(2) : PrefixOf(k1) = PrefixOf(k2)

(***************************************************************************)
(* Properties of the sendemail function (SpecDeliver)                      *)
(***************************************************************************)
\* The invocation got to the size check and is over.
Delivered == mail.pc = "done" /\ "file_size" \in DOMAIN mail

\* C8: the size check answers link exactly when the artifact has more than
\* 10*1024*1024 bytes, and inline otherwise: inline at exactly 10*1024*1024
\* bytes and at 0 bytes, link at one byte more.
C8_LinkIffOverTenMiB ==
    Delivered => (mail.file_size <=> mail.object.ContentLength > 10 * 1024 * 1024)

\* An artifact of exactly 10*1024*1024 bytes was answered inline.
C8_ExactlyTenMiBInline ==
    /\ Delivered
    /\ mail.object.ContentLength = 10 * 1024 * 1024
    /\ ~mail.file_size

\* C9: whatever the presigning did, the message sent is the link composition
\* when the artifact is over the threshold and otherwise the attachment
\* composition carrying the artifact's content; an artifact over the
\* threshold is never sent as attachment.
C9_CompositionBySizeOnly ==
    (Delivered /\ mail.sent # <<>>) =>
       IF mail.object.ContentLength > 10 * 1024 * 1024
       THEN mail.sent[1].composition = "link"
       ELSE /\ mail.sent[1].composition = "attachment"
            /\ mail.sent[1].csv_content = mail.object.Body

\* C10: when the SES call fails, with attachment or with link, the handler
\* raises or returns a status other than 200.
C10_SendFailureNever200 ==
    (Delivered /\ mail.ses # "sent") =>
       (mail.result.raised \/ mail.result.value.statusCode # 200)

\* The SES call failed on a link message and the handler returned 500.
C10_LinkSendFailed ==
    /\ Delivered
    /\ mail.ses = "ClientError"
    /\ mail.file_size
    /\ mail.signed
    /\ ~mail.result.raised
    /\ mail.result.value.statusCode = 500

\* C11: the handler returns statusCode 200 if and only if SES accepted the
\* message, with attachment and with link alike.
C11_Status200IffSent ==
    Delivered =>
       ((~mail.result.raised /\ mail.result.value.statusCode = 200) <=> mail.sent # <<>>)

(***************************************************************************)
(* SpecAggregate: fetch invocations of earlier executions have saved       *)
(* partitions; the generatecsv function is invoked once on a prefix.       *)
(***************************************************************************)
\* What a partition may hold: filtered findings, none included.
SavedFindings ==
    { <<>>,
      <<Normalize(BaseFinding), Normalize(HighFinding)>>,
      <<Normalize([BaseFinding EXCEPT !.Id = IdPciNist])>> }

InitAggregate == IdleFilter /\ IdleTags /\ IdleMail /\ PipeInit({}, ExecutionInputs)

\* save_findings of a fetch invocation on some day
SavePartition ==
    /\ aggLog[1] = <<>>
    /\ Cardinality(DOMAIN s3) < MaxPages
    /\ \E day \in 1..MaxDay, n \in 1..MaxPages, findings \in SavedFindings :
          LET saved == save_findings(Bucket, findings, AwsRequestId(1, n), day)
          IN  /\ saved.Key \notin DOMAIN s3
              /\ s3' = PutObject(s3, saved.Key, [Body |-> saved.Body])
    /\ UNCHANGED <<filterVars, tagVars, mailVars, today, shPages, listing, exporter, failure, pc, data, locals, fetchLog,
                   aggLog, outbox>>

\* lambda_handler of generatecsv on the prefix of some day
InvokeGenerateCsv ==
    /\ aggLog[1] = <<>>
    /\ \E day \in 1..MaxDay :
          LET event == [BucketName |-> PyStr(Bucket), Prefix |-> PyStr(<<"findings/", day>>)]
              out == generatecsv_lambda_handler(event, s3, today, "none")
              entry == [ date |-> today,
                         prefix |-> event.Prefix,
                         json_files |-> out.json_files,
                         put |-> out.put,
                         result |-> out.result ]
          IN  /\ aggLog' = [aggLog EXCEPT ![1] = Append(@, entry)]
              /\ s3' = IF out.result.raised THEN s3
                       ELSE PutObject(s3, out.put[1].Key,
                                      [ Body |-> out.put[1].Body,
                                        ContentLength |->
                                            CsvContentLength(out.put[1].Body) ])
    /\ UNCHANGED <<filterVars, tagVars, mailVars, today, shPages, listing, exporter, failure, pc, data, locals, fetchLog, outbox>>

NextAggregate == SavePartition \/ InvokeGenerateCsv

SpecAggregate == InitAggregate /\ [][NextAggregate]_vars

(***************************************************************************)
(* Properties of the generatecsv function (SpecAggregate)                  *)
(***************************************************************************)
\* The invocations of generatecsv that got to combine_json_data.
Aggregations == {aggLog[r][1] : r \in {q \in Runs : aggLog[q] # <<>>}}

\* C12: aggregating a prefix under which there is no partition does not
\* raise: the artifact is the header of the 16 columns and no row.
C12_NoPartitionHeaderOnly ==
    \A e \in Aggregations :
       e.json_files = <<>> =>
          /\ ~e.result.raised
          /\ e.put[1].Body.header = headers
          /\ Len(e.put[1].Body.header) = 16
          /\ e.put[1].Body.rows = <<>>
          /\ s3[e.put[1].Key].ContentLength = HeaderBytes

\* A prefix without partitions was aggregated while the bucket held
\* partitions under another prefix; the artifact is in the bucket.
C12_EmptyPrefixAggregated ==
    /\ aggLog[1] # <<>>
    /\ aggLog[1][1].json_files = <<>>
    /\ PartitionKeys # {}
    /\ aggLog[1][1].put[1].Key \in DOMAIN s3

\* The records of the partition under a key, in stored order, as rows.
RowSeqOf(key) ==
    LET items == json_loads(s3[key].Body)
    IN  [i \in 1..Len(items) |->
            CsvRow([items[i] EXCEPT !.securityStandards = JoinTexts(<<", ">>, @)])]

\* C13: the rows of the artifact are the records of the partitions under the
\* prefix, partition after partition in the bucket's listing order (key
\* order), and within a partition in stored order; none is dropped,
\* duplicated or moved.
C13_RowsInListingOrder ==
    \A e \in Aggregations :
       ~e.result.raised =>
          /\ SeqToSet(e.json_files) = {k \in PartitionKeys : HasPrefix(k, e.prefix.val)}
          /\ \A i, j \in 1..Len(e.json_files) :
                i < j => KeyBefore(e.json_files[i], e.json_files[j])
          /\ e.put[1].Body.rows =
                Concat([i \in 1..Len(e.json_files) |-> RowSeqOf(e.json_files[i])])

\* A partition of two records and a later one of one record were aggregated
\* to three rows.
C13_TwoThenOne ==
    /\ aggLog[1] # <<>>
    /\ Len(aggLog[1][1].json_files) = 2
    /\ Len(RowSeqOf(aggLog[1][1].json_files[1])) = 2
    /\ Len(RowSeqOf(aggLog[1][1].json_files[2])) = 1
    /\ Len(aggLog[1][1].put[1].Body.rows) = 3

(***************************************************************************)
(* SpecTags: the security standards of one finding, from the finding id    *)
(* through filter_data and write_csv_to_s3 to the securityStandards cell,  *)
(* and the cell split again by a reader of the artifact.                   *)
(***************************************************************************)
RECURSIVE Split(_, _)
\* text.split(sep): the texts between the occurrences of sep, from the left;
\* a text without occurrence, the empty text included, gives itself alone.
Split(sep, text) ==
    LET at == {i \in 1..(Len(text) - Len(sep) + 1) :
                  SubSeq(text, i, i + Len(sep) - 1) = sep}
    IN  IF at = {} THEN <<text>>
        ELSE LET i == CHOOSE x \in at : \A y \in at : x <= y
             IN  <<SubSeq(text, 1, i - 1)>>
                 \o Split(sep, SubSeq(text, i + Len(sep), Len(text)))

\* Sequences without repetition of the known standards, none to all five.
StandardLists ==
    { l \in UNION { [1..n -> SeqToSet(known_standards)] : n \in 0..Len(known_standards) } :
         \A i, j \in DOMAIN l : i # j => l[i] # l[j] }

\* A finding id that names the standards of the list, in its order.
FindingIdNaming(l) ==
    <<"arn:aws:securityhub:::">>
    \o Concat([i \in 1..Len(l) |-> l[i] \o <<"/">>]) \o <<"finding/4">>

InitTags ==
    /\ IdleFilter
    /\ IdleMail
    /\ PipeInit({}, ExecutionInputs)
    /\ \E l \in StandardLists : tags = [pc |-> "id", finding_id |-> FindingIdNaming(l)]

\* filter_data on the finding, without criteria
TagsFilter ==
    /\ tags.pc = "id"
    /\ LET out == filter_data(<<[BaseFinding EXCEPT !.Id = tags.finding_id]>>,
                              PyNone, PyNone, PyNone, PyNone)
       IN  tags' = [ pc |-> "filtered", finding_id |-> tags.finding_id,
                     record |-> out.value[1] ]
    /\ UNCHANGED <<filterVars, mailVars, pipeVars>>

\* write_csv_to_s3 on the record
TagsWrite ==
    /\ tags.pc = "filtered"
    /\ LET csv == write_csv_to_s3(<<tags.record>>, headers)
       IN  tags' = [ pc |-> "written", finding_id |-> tags.finding_id,
                     record |-> tags.record,
                     cell |-> csv.value.rows[1].securityStandards ]
    /\ UNCHANGED <<filterVars, mailVars, pipeVars>>

\* A reader splits the cell on the delimiter.
TagsSplit ==
    /\ tags.pc = "written"
    /\ tags' = [ pc |-> "split", finding_id |-> tags.finding_id,
                 record |-> tags.record, cell |-> tags.cell,
                 read |-> Split(<<", ">>, tags.cell) ]
    /\ UNCHANGED <<filterVars, mailVars, pipeVars>>

NextTags == TagsFilter \/ TagsWrite \/ TagsSplit

SpecTags == InitTags /\ [][NextTags]_vars

(***************************************************************************)
(* Properties of the securityStandards cell (SpecTags)                     *)
(***************************************************************************)
\* C14, as stated: for every set of standards filter_data can produce, the
\* empty one included, joining it into the cell and splitting the cell on
\* the delimiter gives the set again.
C14_RoundTripEverySet ==
    tags.pc = "split" => SeqToSet(tags.read) = SeqToSet(tags.record.securityStandards)

\* C14, amended: for every set of standards with at least one standard,
\* joining it into the cell and splitting the cell on the delimiter gives the
\* set again; the empty set is written as the empty cell, and splitting the
\* empty cell gives one empty text.
C14_RoundTripNonEmptySet ==
    tags.pc = "split" =>
       IF tags.record.securityStandards # <<>>
       THEN SeqToSet(tags.read) = SeqToSet(tags.record.securityStandards)
       ELSE tags.cell = <<>> /\ tags.read = << <<>> >>

\* The five standards were extracted, joined and split to the five again.
C14_AllFiveRoundTrip ==
    /\ tags.pc = "split"
    /\ Len(tags.record.securityStandards) = 5
    /\ Len(tags.read) = 5
    /\ SeqToSet(tags.read) = SeqToSet(known_standards)

(***************************************************************************)
(* Properties of one execution from its input to the message (Spec)        *)
(***************************************************************************)
RECURSIVE KeptUpTo(_, _)
\* The findings the first n fetch invocations of execution r kept.
KeptUpTo(r, n) == IF n = 0 THEN 0 ELSE fetchLog[r][n].kept + KeptUpTo(r, n - 1)

\* C15: for one execution on an empty bucket, the artifact has as many rows
\* as findings passed the filter over all pages fetched, there are as many
\* partitions as pages, and when the handler of "Send Email" reports 200 for
\* an artifact under the threshold, SES has accepted one message with
\* attachment, addressed to all recipients of the input.
C15_EndToEndCounts ==
    /\ (aggLog[1] # <<>> /\ ~aggLog[1][1].result.raised) =>
          /\ Len(aggLog[1][1].put[1].Body.rows) = KeptUpTo(1, Len(fetchLog[1]))
          /\ Cardinality(PartitionKeys) = shPages
    /\ Len(outbox[1]) <= 1
    /\ (pc[1] = "Succeeded" /\ data[1].Payload.statusCode = 200) =>
          /\ Len(outbox[1]) = 1
          /\ outbox[1][1].composition = "attachment"
          /\ outbox[1][1].Destinations = fetchLog[1][1].event.RecipientEmails

\* The input an execution was started with: the document without the keys
\* the states write ($.Parameters, $.TaskOutput, $.OutputCsv).
ExecutionInput(doc) ==
    [k \in DOMAIN doc \ {"Parameters", "TaskOutput", "OutputCsv"} |-> doc[k]]

\* The value of parameter p for an input: the input's, if it has the key.
MergedValue(input, p) == IF p \in DOMAIN input THEN input[p] ELSE DefaultParameters[p]

\* C16: for BodyText, Subject and the four filters, the value in the
\* document after "Set Missing Parameters", in the event of every fetch
\* invocation, in the payload of "Send Email" and in the message sent is the
\* input's value when the input has the key (an explicit null included) and
\* the default otherwise.
C16_MergedValuesUsed ==
    /\ [](pc[1] \notin {"InitializeDefaults", "SetMissingParameters", "Succeeded"} =>
            LET input == ExecutionInput(data[1])
            IN  /\ \A p \in ParameterNames :
                      /\ data[1].Parameters[p] = MergedValue(input, p)
                      /\ \A i \in 1..Len(fetchLog[1]) :
                            fetchLog[1][i].event[p] = MergedValue(input, p)
                /\ pc[1] = "SendEmailSizeCheck" =>
                      \A p \in {"BodyText", "Subject"} :
                         send_email_payload(data[1])[p] = MergedValue(input, p))
    /\ [][outbox'[1] # outbox[1] =>
             LET input == ExecutionInput(data[1])
                 message == outbox'[1][Len(outbox'[1])]
             IN  /\ message.Subject = MergedValue(input, "Subject")
                 /\ message.body_text = MergedValue(input, "BodyText")]_vars

\* A message sent for the input with a body text, a null subject, a
\* compliance filter and no workflow filter.
C16_CustomValuesDelivered ==
    /\ outbox[1] # <<>>
    /\ outbox[1][1].body_text = CustomInput.BodyText
    /\ outbox[1][1].Subject = PyNone
    /\ fetchLog[1][1].event.ComplianceStatusFilter = CustomInput.ComplianceStatusFilter
    /\ fetchLog[1][1].event.SeverityFilter = PyNone
    /\ fetchLog[1][1].event.WorkflowStatusFilter = PyNone

\* C17: the event of every fetch invocation of an execution is, apart from
\* NextToken, the event of the first one (bucket, sender, recipients, body
\* text, subject, four filters), which has no NextToken; and a fetch task
\* changes nothing of the document but $.TaskOutput.
C17_FetchKeepsParameters ==
    /\ [](\A i \in 1..Len(fetchLog[1]) :
             /\ "NextToken" \in DOMAIN fetchLog[1][i].event <=> i > 1
             /\ Without(fetchLog[1][i].event, "NextToken") = fetchLog[1][1].event)
    /\ [][fetchLog'[1] # fetchLog[1] =>
             /\ DOMAIN data'[1] \subseteq DOMAIN data[1] \cup {"TaskOutput"}
             /\ Without(data'[1], "TaskOutput") = Without(data[1], "TaskOutput")]_vars

\* Three fetch invocations of an execution with a severity filter, the
\* cursor of the second differing from the cursor of the third.
C17_ThreeFetchesWithFilter ==
    /\ Len(fetchLog[1]) = 3
    /\ ~fetchLog[1][3].result.raised
    /\ fetchLog[1][1].event.SeverityFilter = PyList(<<"CRITICAL">>)
    /\ fetchLog[1][2].event.NextToken # fetchLog[1][3].event.NextToken

\* The fields every execution input must have.
RequiredFields == {"BucketName", "RecipientEmails", "SenderEmail"}

\* A required field is absent from the input, or empty or null.
Deficient(input) ==
    \E f \in RequiredFields : f \notin DOMAIN input \/ ~Truthy(input[f])

\* C18: an execution whose input lacks a required field, or has it empty,
\* invokes no function: no page is fetched, no partition and no artifact is
\* written, no message is sent.
C18_DeficientInputDoesNothing ==
    (pc[1] # "Succeeded" /\ Deficient(ExecutionInput(data[1]))) =>
        /\ \A i \in 1..Len(fetchLog[1]) :
              /\ fetchLog[1][i].result = Raised("ValueError")
              /\ fetchLog[1][i].put = <<>>
        /\ DOMAIN s3 = {}
        /\ aggLog[1] = <<>>
        /\ outbox[1] = <<>>

\* C19: a fetch invocation whose upstream call or whose put fails, and an
\* aggregation whose listing, read or put fails, raises the call's error and
\* puts nothing; it is the execution's last invocation, the execution has
\* failed with that error, and no aggregation (after a failed fetch) and no
\* message follows.  Every partition put is in the bucket as it was put, and
\* a failed execution changes nothing any more.
C19_FailuresPropagate ==
    /\ [](/\ \A i \in 1..Len(fetchLog[1]) :
                LET e == fetchLog[1][i]
                IN  /\ ( /\ e.injected # "none"
                         /\ Truthy(e.event.BucketName)
                         /\ ~(e.result.raised /\ e.result.error = "IndexError") ) =>
                            /\ e.result = Raised("ClientError")
                            /\ e.put = <<>>
                            /\ i = Len(fetchLog[1])
                            /\ pc[1] = "Failed"
                            /\ failure[1] = "ClientError"
                            /\ aggLog[1] = <<>>
                            /\ outbox[1] = <<>>
                    /\ e.put # <<>> =>
                            /\ e.put[1].Key \in DOMAIN s3
                            /\ s3[e.put[1].Key].Body = e.put[1].Body
          /\ \A j \in 1..Len(aggLog[1]) :
                LET e == aggLog[1][j]
                IN  e.injected # "none" =>
                       /\ e.result = Raised("ClientError")
                       /\ e.put = <<>>
                       /\ j = Len(aggLog[1])
                       /\ pc[1] = "Failed"
                       /\ failure[1] = "ClientError"
                       /\ outbox[1] = <<>>)
    /\ [][pc[1] = "Failed" =>
             UNCHANGED <<s3, pc, data, locals, fetchLog, aggLog, outbox, failure>>]_vars

\* The put of the second fetch invocation failed; the partition of the
\* first page is in the bucket.
C19_SecondPutFailed ==
    /\ Len(fetchLog[1]) = 2
    /\ fetchLog[1][2].injected = "put_object"
    /\ fetchLog[1][2].result.raised
    /\ pc[1] = "Failed"
    /\ fetchLog[1][1].put # <<>>
    /\ DOMAIN s3 = {fetchLog[1][1].put[1].Key}

\* The order of the states of an execution: the pairs of a state and the
\* state the execution may be in next.
StateOrder ==
    { <<"InitializeDefaults", "SetMissingParameters">>,
      <<"SetMissingParameters", "FetchFindingsWithoutToken">>,
      <<"FetchFindingsWithoutToken", "CheckForNextToken">>,
      <<"CheckForNextToken", "FetchFindingsWithToken">>,
      <<"FetchFindingsWithToken", "CheckForNextToken">>,
      <<"CheckForNextToken", "GenerateCsv">>,
      <<"GenerateCsv", "SendEmail">>,
      <<"SendEmail", "SendEmailSizeCheck">>,
      <<"SendEmailSizeCheck", "Succeeded">> }
    \cup { <<state, "Failed">> :
              state \in { "FetchFindingsWithoutToken", "FetchFindingsWithToken",
                          "GenerateCsv", "SendEmail", "SendEmailSizeCheck" } }

\* C20: an execution goes through its states in the order Initialize
\* Defaults, Set Missing Parameters, Fetch Findings without Token, then
\* Check for NextToken and Fetch Findings with Token in turn, Generate CSV,
\* Send Email; a step invokes at most one function.  generatecsv is invoked
\* when every page has been fetched and the partition of each is in the
\* bucket; sendemail runs when generatecsv has returned the artifact's key,
\* which is in the document and in the bucket; generatecsv is invoked and a
\* message is sent at most once.
C20_StrictlySequential ==
    /\ [][/\ pc'[1] # pc[1] => <<pc[1], pc'[1]>> \in StateOrder
          /\ Len(fetchLog'[1]) + Len(aggLog'[1]) + Len(outbox'[1])
                <= Len(fetchLog[1]) + Len(aggLog[1]) + Len(outbox[1]) + 1
          /\ fetchLog'[1] # fetchLog[1] =>
                pc[1] \in {"FetchFindingsWithoutToken", "FetchFindingsWithToken"}
          /\ aggLog'[1] # aggLog[1] =>
                /\ pc[1] = "GenerateCsv"
                /\ Len(fetchLog[1]) = shPages
                /\ \A i \in 1..Len(fetchLog[1]) :
                      /\ ~fetchLog[1][i].result.raised
                      /\ fetchLog[1][i].put[1].Key \in DOMAIN s3
                /\ ~Truthy(fetchLog[1][shPages].cursor)
          /\ outbox'[1] # outbox[1] => pc[1] = "SendEmailSizeCheck"]_vars
    /\ [](/\ Len(aggLog[1]) <= 1
          /\ Len(outbox[1]) <= 1
          /\ pc[1] \in {"SendEmail", "SendEmailSizeCheck"} =>
                /\ Len(aggLog[1]) = 1
                /\ aggLog[1][1].result = Returned(data[1].OutputCsv.Payload)
                /\ data[1].OutputCsv.Payload.val \in DOMAIN s3
          /\ outbox[1] # <<>> => (aggLog[1] # <<>> /\ ~aggLog[1][1].result.raised))

\* An execution that succeeded after three fetch invocations, one
\* aggregation and one message.
C20_ThreePagesThenAggregateThenDeliver ==
    /\ pc[1] = "Succeeded"
    /\ Len(fetchLog[1]) = 3
    /\ Len(aggLog[1]) = 1
    /\ Len(outbox[1]) = 1

ContainerFields ==
    {"Compliance", "ProductFields", "Remediation", "Resources", "Severity", "Workflow"}

\* How a container field is given: as in the base finding, not at all, as an
\* empty dict or list, or (Remediation, Resources) with an empty dict in it.
ContainerModes ==
    [ContainerFields -> {"present", "absent", "empty", "hollow"}]

\* The base finding with its container fields as the modes say, and without
\* the scalar fields named.
SparseFinding(modes, dropped) ==
    [ f \in DOMAIN BaseFinding \ ({c \in ContainerFields : modes[c] = "absent"} \cup dropped) |->
         IF f \notin ContainerFields \/ modes[f] = "present" THEN BaseFinding[f]
         ELSE IF modes[f] = "empty" THEN EmptyDict
         ELSE IF f = "Remediation" THEN [Recommendation |-> EmptyDict]
         ELSE IF f = "Resources" THEN <<EmptyDict>>
         ELSE EmptyDict ]

ScalarFields == DOMAIN BaseFinding \ ContainerFields

SparseFindings ==
    { SparseFinding(modes, dropped) :
         modes \in ContainerModes, dropped \in {{}, {"Id"}, ScalarFields} }

InitSparse ==
    /\ \E item \in SparseFindings : input_list = <<item>>
    /\ criteria = NoCriteria
    /\ filtered = NotCalled
    /\ IdleTags
    /\ IdleMail
    /\ PipeInit({}, ExecutionInputs)

NextSparse == CallFilterData

SpecSparse == InitSparse /\ [][NextSparse]_vars

\* The field is absent from the item, or empty.
Lacks(item, f) == f \notin DOMAIN item \/ item[f] = EmptyDict

\* C22: filter_data on a finding that lacks any of its fields, or has them
\* empty, does not raise and returns the record whose fields for what is
\* lacking are the empty string, and the empty list for the standards.
C22_NormalizeNeverFaults ==
    filtered # NotCalled =>
       /\ ~filtered.raised
       /\ Len(filtered.value) = 1
       /\ LET item == input_list[1]
              record == filtered.value[1]
          IN  /\ DOMAIN record = SeqToSet(headers)
              /\ Lacks(item, "Compliance") => record.complianceStatus = ""
              /\ Lacks(item, "ProductFields") => record.controlId = ""
              /\ Lacks(item, "Remediation") =>
                    record.remediationText = "" /\ record.remediationUrl = ""
              /\ Lacks(item, "Resources") => record.resourceArn = ""
              /\ Lacks(item, "Severity") => record.severity = ""
              /\ Lacks(item, "Workflow") => record.workflowStatus = ""
              /\ "Id" \notin DOMAIN item =>
                    record.findingId = <<>> /\ record.securityStandards = <<>>
              /\ "Title" \notin DOMAIN item => record.title = ""

(***************************************************************************)
(* Order of the records filter_data returns (SpecFilter)                   *)
(***************************************************************************)
\* The positions of the page whose item meets the comprehension's condition.
PassingPositions ==
    { i \in 1..Len(input_list) :
         Passes(input_list[i], criteria.compliance_status_filter,
                criteria.security_standard_filter, criteria.severity_filter,
                criteria.workflow_status_filter) }

\* The n-th of the passing positions, from the start of the page.
NthPassing(n) ==
    CHOOSE i \in PassingPositions : Cardinality({k \in PassingPositions : k < i}) = n - 1

\* C23: the call of filter_data leaves the page as it was; what it returns is
\* fixed by the page and the criteria, and has one record per passing
\* position, the n-th record being the normalized item of the n-th passing
\* position: no record is moved, repeated or dropped.
C23_OrderPreservingSubsequence ==
    /\ [][filtered' # filtered => input_list' = input_list /\ criteria' = criteria]_vars
    /\ []((filtered # NotCalled /\ ~filtered.raised) =>
             /\ filtered = filter_data(input_list, criteria.compliance_status_filter,
                                       criteria.security_standard_filter,
                                       criteria.severity_filter,
                                       criteria.workflow_status_filter)
             /\ Len(filtered.value) = Cardinality(PassingPositions)
             /\ \A n \in 1..Len(filtered.value) :
                   filtered.value[n] = Normalize(input_list[NthPassing(n)]))

\* A page of the high and then the critical finding, both kept.
C23_TwoKeptInPageOrder ==
    /\ filtered # NotCalled
    /\ ~filtered.raised
    /\ input_list = <<HighFinding, BaseFinding>>
    /\ criteria.severity_filter = PyList(<<"CRITICAL", "HIGH">>)
    /\ Len(filtered.value) = 2
    /\ filtered.value[1].severity = "HIGH"

(***************************************************************************)
(* SpecReaggregate: the generatecsv function is invoked more than once,    *)
(* on the same day or a later one, while fetch invocations may go on       *)
(* saving partitions.                                                      *)
(***************************************************************************)
\* Invocations of generatecsv in one behaviour.
MaxAggregations == 2

\* The objects of the bucket under a prefix.
Under(store, prefix) ==
    [k \in {key \in DOMAIN store : HasPrefix(key, prefix)} |-> store[k]]

\* save_findings of the next fetch invocation, before or after an
\* aggregation: it saves under the prefix of the current date.
SaveAnyPartition ==
    /\ Cardinality(DOMAIN Under(s3, <<"findings/">>)) < MaxPages
    /\ \E findings \in SavedFindings :
          LET n == Cardinality(DOMAIN Under(s3, <<"findings/">>)) + 1
              saved == save_findings(Bucket, findings, AwsRequestId(1, n), today)
          IN  s3' = PutObject(s3, saved.Key, [Body |-> saved.Body])
    /\ UNCHANGED <<filterVars, tagVars, mailVars, today, shPages, listing, exporter, failure, pc, data, locals, fetchLog,
                   aggLog, outbox>>

\* lambda_handler of generatecsv on the prefix of some day, once more; the
\* entry keeps what was under the prefix when it ran.
Reaggregate ==
    /\ Len(aggLog[1]) < MaxAggregations
    /\ \E day \in 1..MaxDay :
          \E event \in {[BucketName |-> PyStr(Bucket), Prefix |-> PyStr(<<"findings/", day>>)]} :
          \E out \in {generatecsv_lambda_handler(event, s3, today, "none")} :
             /\ aggLog' = [aggLog EXCEPT ![1] =
                             Append(@, [ date |-> today,
                                         prefix |-> event.Prefix,
                                         partitions |-> Under(s3, event.Prefix.val),
                                         json_files |-> out.json_files,
                                         put |-> out.put,
                                         result |-> out.result ])]
             /\ s3' = IF out.result.raised THEN s3
                      ELSE PutObject(s3, out.put[1].Key,
                                     [ Body |-> out.put[1].Body,
                                       ContentLength |->
                                           CsvContentLength(out.put[1].Body) ])
    /\ UNCHANGED <<filterVars, tagVars, mailVars, today, shPages, listing, exporter, failure, pc, data, locals, fetchLog, outbox>>

NextReaggregate == SaveAnyPartition \/ Reaggregate \/ Tick

SpecReaggregate == InitAggregate /\ [][NextReaggregate]_vars

\* C24: two aggregations of one prefix between which no partition under it
\* was added or removed write the same artifact; no aggregation lists a key
\* outside its prefix, an artifact least of all; and an aggregation leaves
\* every object but its own artifact in the bucket, as it was.
C24_ReaggregationIdempotent ==
    /\ [](\A i, j \in 1..Len(aggLog[1]) :
            LET a == aggLog[1][i]
                b == aggLog[1][j]
            IN  (i < j /\ a.prefix = b.prefix /\ a.partitions = b.partitions
                 /\ ~a.result.raised) =>
                   /\ ~b.result.raised
                   /\ b.put[1].Body = a.put[1].Body
                   /\ b.json_files = a.json_files)
    /\ [](\A i \in 1..Len(aggLog[1]) :
            \A n \in 1..Len(aggLog[1][i].json_files) :
               /\ HasPrefix(aggLog[1][i].json_files[n], aggLog[1][i].prefix.val)
               /\ \A j \in 1..Len(aggLog[1]) :
                     \A p \in 1..Len(aggLog[1][j].put) :
                        aggLog[1][j].put[p].Key # aggLog[1][i].json_files[n])
    /\ [][aggLog' # aggLog =>
            \A k \in DOMAIN s3 :
               k # <<"reports/findings_report-", today, ".csv">> =>
                  k \in DOMAIN s3' /\ s3'[k] = s3[k]]_vars

\* A prefix with a partition of two records was aggregated twice on one
\* day, the second time over the artifact of the first.
C24_AggregatedTwiceSameDay ==
    /\ Len(aggLog[1]) = 2
    /\ aggLog[1][1].prefix = aggLog[1][2].prefix
    /\ aggLog[1][1].date = aggLog[1][2].date
    /\ aggLog[1][1].partitions = aggLog[1][2].partitions
    /\ Len(aggLog[1][1].put) = 1
    /\ Len(aggLog[1][2].put[1].Body.rows) = 2

(***************************************************************************)
(* SpecListing: one call of list_s3_objects on a prefix whose keys the     *)
(* bucket serves in responses of its own choosing.                         *)
(***************************************************************************)
\* Responses the bucket takes at most to serve one listing.
MaxListResponses == 3

\* The response of list_objects_v2 that carries the given keys: the SDK
\* leaves Contents out of a response without keys; a truncated response
\* carries the token for the next call.
ListResponse(page, truncated) ==
    IF page = <<>> THEN [IsTruncated |-> truncated, KeyCount |-> 0]
    ELSE [Contents |-> page, IsTruncated |-> truncated, KeyCount |-> Len(page)]

\* The ways the bucket may serve the keys, in key order, in m responses: all
\* but the last are truncated, and any of them may carry no key.
ResponsesOf(keys, m) ==
    { [i \in 1..m |-> ListResponse(SubSeq(keys, cut[i - 1] + 1, cut[i]), i < m)] :
      cut \in { c \in [0..m -> 0..Len(keys)] :
                   /\ c[0] = 0
                   /\ c[m] = Len(keys)
                   /\ \A i \in 1..m : c[i - 1] <= c[i] } }

\* The keys under the prefix of day 1, in key order.
ListedKeySeqs ==
    { SortKeys(K) : K \in SUBSET { save_findings(Bucket, <<>>, AwsRequestId(1, n), 1).Key :
                                      n \in 1..MaxPages } }

InitListing ==
    /\ IdleFilter
    /\ IdleTags
    /\ IdleMail
    /\ \E keys \in ListedKeySeqs, m \in 1..MaxListResponses :
       \E responses \in ResponsesOf(keys, m) :
          /\ today = 1
          /\ shPages = 1
          /\ listing = [pc |-> "ready", keys |-> keys, responses |-> responses]
          /\ exporter = [pc |-> "idle"]
          /\ s3 = <<>>
          /\ pc = [r \in Runs |-> "NotStarted"]
          /\ data = [r \in Runs |-> EmptyDict]
          /\ locals = [r \in Runs |-> NoLocals]
          /\ fetchLog = [r \in Runs |-> <<>>]
          /\ aggLog = [r \in Runs |-> <<>>]
          /\ outbox = [r \in Runs |-> <<>>]
          /\ failure = [r \in Runs |-> ""]

\* list_s3_objects: the loop over the responses
CallListS3Objects ==
    /\ listing.pc = "ready"
    /\ listing' = [ pc |-> "returned", keys |-> listing.keys,
                    responses |-> listing.responses,
                    objects |-> ListLoop(listing.responses, 1, <<>>) ]
    /\ UNCHANGED <<filterVars, tagVars, mailVars, today, shPages, exporter, s3, pc, data, locals,
                   fetchLog, aggLog, outbox, failure>>

NextListing == CallListS3Objects

SpecListing == InitListing /\ [][NextListing]_vars

\* C25: however the bucket splits the keys under the prefix into responses,
\* a truncated response without keys included, list_s3_objects returns
\* every key once, in listing order.
C25_ListingComplete ==
    listing.pc = "returned" => listing.objects = listing.keys

(***************************************************************************)
(* The size in the body of the link message (SpecDeliver)                  *)
(***************************************************************************)
\* A byte count in MB (bytes / (1024 * 1024)) with two decimals, rounded to
\* the nearest hundredth.
MbFixed2(bytes) ==
    LET hundredths == (100 * bytes + 512 * 1024) \div (1024 * 1024)
    IN  [whole |-> hundredths \div 100, decimals |-> hundredths % 100]

\* C26: the body of a link message names the bucket and key of the artifact
\* and gives, as its size, the MB value of the byte size the size check
\* measured.
C26_LinkBodyReportsActualSize ==
    (Delivered /\ mail.sent # <<>> /\ mail.sent[1].composition = "link") =>
       /\ mail.sent[1].bucket_name = mail.event.BucketName.val
       /\ mail.sent[1].key = mail.event.OutputCsv.val
       /\ mail.sent[1].file_size_text = MbFixed2(mail.object.ContentLength)

(***************************************************************************)
(* The artifact between Aggregate and Deliver (SpecConcurrent)             *)
(***************************************************************************)
\* The key under which execution r wrote its artifact.
ArtifactKeyOf(r) == aggLog[r][Len(aggLog[r])].put[1].Key

\* Execution r has aggregated and is about to deliver or delivering.
Delivering(r) == pc[r] \in {"SendEmail", "SendEmailSizeCheck"}

\* C27: while an execution is between its Aggregate and the end of its
\* Deliver no other execution replaces the object under its artifact key,
\* and the content an execution attaches is the content its own Aggregate
\* wrote.
C27_DeliversOwnArtifact ==
    /\ [][\A r \in Runs :
            (Delivering(r) /\ pc'[r] = pc[r]) =>
               s3'[ArtifactKeyOf(r)] = s3[ArtifactKeyOf(r)]]_vars
    /\ [](\A r \in Runs :
            \A i \in 1..Len(outbox[r]) :
               outbox[r][i].composition = "attachment" =>
                  outbox[r][i].csv_content = aggLog[r][Len(aggLog[r])].put[1].Body)

(***************************************************************************)
(* The cursor from one fetch to the next (SpecConcurrent)                  *)
(***************************************************************************)
\* C28: the first fetch of an execution is the one without token and passes
\* no cursor to the findings API; every later fetch is one with token and
\* passes the cursor the fetch just before it, of the same execution, got
\* back; no cursor is passed by two fetches of an execution.
C28_CursorThreading ==
    \A r \in Runs :
       \A i \in 1..Len(fetchLog[r]) :
          LET e == fetchLog[r][i]
          IN  /\ i = 1 =>
                    /\ e.state = "FetchFindingsWithoutToken"
                    /\ "NextToken" \notin DOMAIN e.event
                    /\ e.token_in = PyNone
              /\ i > 1 =>
                    /\ e.state = "FetchFindingsWithToken"
                    /\ fetchLog[r][i - 1].cursor # PyNone
                    /\ e.event.NextToken = fetchLog[r][i - 1].cursor
                    /\ e.token_in = fetchLog[r][i - 1].cursor
              /\ \A j \in 1..Len(fetchLog[r]) :
                    (j # i /\ e.token_in # PyNone) => fetchLog[r][j].token_in # e.token_in

\* Both executions fetched three pages, each passing its first cursor and
\* then its second.
C28_BothRunsThreeFetches ==
    \A r \in Runs :
       /\ Len(fetchLog[r]) = 3
       /\ fetchLog[r][2].token_in = fetchLog[r][1].cursor
       /\ fetchLog[r][3].token_in = fetchLog[r][2].cursor
       /\ fetchLog[r][3].token_in # fetchLog[r][2].token_in
       /\ fetchLog[r][3].cursor = PyNone

(***************************************************************************)
(* The shape of the records in the partitions (Spec)                       *)
(***************************************************************************)
\* A Python list of known standards.
IsStandardsList(v) ==
    /\ DOMAIN v = 1..Len(v)
    /\ \A i \in 1..Len(v) : v[i] \in SeqToSet(known_standards)

\* C29: every record of every partition in the bucket has the 16 header
\* keys, no more and no less, and a list as securityStandards; so an
\* aggregation whose S3 calls succeed does not raise, and every row it
\* writes has a cell under every header.
C29_PartitionRecordsWellFormed ==
    /\ \A k \in PartitionKeys :
          \A i \in 1..Len(json_loads(s3[k].Body)) :
             LET record == json_loads(s3[k].Body)[i]
             IN  /\ DOMAIN record = SeqToSet(headers)
                 /\ Cardinality(DOMAIN record) = 16
                 /\ IsStandardsList(record.securityStandards)
    /\ \A j \in 1..Len(aggLog[1]) :
          LET e == aggLog[1][j]
          IN  e.injected = "none" =>
                 /\ ~e.result.raised
                 /\ \A n \in 1..Len(e.put[1].Body.rows) :
                       DOMAIN e.put[1].Body.rows[n] = SeqToSet(e.put[1].Body.header)

\* Two partitions of two records each were aggregated to four rows.
C29_FourRecordsAggregated ==
    /\ aggLog[1] # <<>>
    /\ ~aggLog[1][1].result.raised
    /\ Len(aggLog[1][1].json_files) = 2
    /\ Len(aggLog[1][1].put[1].Body.rows) = 4
    /\ aggLog[1][1].put[1].Body.rows[1].securityStandards # <<>>

(***************************************************************************)
(* shexporter: the single-step exporter (get_findings, filter_data,        *)
(* write_to_csv, send_email_with_attachment, lambda_handler) and           *)
(* SpecExporter, one invocation of its handler.                            *)
(***************************************************************************)
\* get_findings: the paginator's pages extended into one list; when the
\* paginator raises, the except clause logs and the function ends without a
\* return statement.
get_findings(upstream) ==
    IF upstream.raises THEN PyNone ELSE PyList(Concat(upstream.pages))

\* filter_data of shexporter is the comprehension of fetchfindings; iterating
\* over None raises TypeError.
shexporter_filter_data(input_data, event) ==
    IF input_data = PyNone
    THEN Raised("TypeError")
    ELSE filter_data(input_data.val,
                     Get(event, "compliance_status_filter", PyNone),
                     Get(event, "security_standard_filter", PyNone),
                     Get(event, "severity_filter", PyNone),
                     Get(event, "workflow_status_filter", PyNone))

fieldnames ==
    << "awsAccountId", "awsAccountName", "complianceStatus", "controlId",
       "description", "findingId", "firstSeen", "lastSeen", "region",
       "remediationText", "remediationUrl", "resourceArn", "securityStandards",
       "severity", "title", "workflowStatus" >>

\* write_to_csv: the header and a row per record; the list of standards is
\* written as its str().
write_to_csv(filtered_data) ==
    [ header |-> fieldnames,
      rows |-> [i \in 1..Len(filtered_data) |->
                   [h \in SeqToSet(fieldnames) |->
                       IF h = "securityStandards"
                       THEN [str_of_list |-> filtered_data[i][h]]
                       ELSE filtered_data[i][h]]] ]

\* send_email_with_attachment raising what the SES call raises
send_email_with_attachment_raising(csv_content, event, ses) ==
    IF Get(event, "to_emails", PyNone) = PyNone
    THEN [ret |-> Raised("TypeError"), sent |-> <<>>]
    ELSE IF ses = "sent"
    THEN [ ret |-> Returned(PyNone),
           sent |-> <<[ Source |-> Get(event, "from_email", PyNone),
                        Destinations |-> event.to_emails,
                        csv_content |-> csv_content ]>> ]
    ELSE [ret |-> Raised(ses), sent |-> <<>>]

\* send_email_with_attachment for the outcome of its SES call.  Joining the
\* recipients of an event without to_emails raises TypeError while the
\* message is put together; of the exceptions of the call only ClientError
\* is caught, and logged.  The function has no return statement.
send_email_with_attachment(csv_content, event, ses) ==
    IF Get(event, "to_emails", PyNone) = PyNone
    THEN [ret |-> Raised("TypeError"), sent |-> <<>>]
    ELSE CASE ses = "sent" ->
                [ ret |-> Returned(PyNone),
                  sent |-> <<[ Source |-> Get(event, "from_email", PyNone),
                               Destinations |-> event.to_emails,
                               Subject |-> Get(event, "subject",
                                               PyStr(<<"AWS Security Hub Findings">>)),
                               csv_content |-> csv_content ]>> ]
           [] ses = "ClientError" -> [ret |-> Returned(PyNone), sent |-> <<>>]
           [] OTHER -> [ret |-> Raised(ses), sent |-> <<>>]

\* Pages the paginator may yield.
ExporterPages == UpstreamPages \cup { <<[BaseFinding EXCEPT !.Resources = <<>>]>> }

\* What sh.get_paginator("get_findings").paginate() does: the pages it has,
\* and whether it raises on the way.
ExporterUpstreams ==
    { [pages |-> pages, raises |-> raises] :
      pages \in UNION { [1..n -> ExporterPages] : n \in 1..MaxPages },
      raises \in BOOLEAN }

ExporterEvents ==
    { [from_email |-> PyStr(<<"sender@example.com">>)] }
    \cup { [ from_email |-> PyStr(<<"sender@example.com">>),
             to_emails |-> PyList(<< <<"a@example.com">> >>) ] }
    \cup { [ from_email |-> PyStr(<<"sender@example.com">>),
             to_emails |-> PyList(<< <<"a@example.com">> >>),
             severity_filter |-> PyList(<<"HIGH">>) ] }

InitExporter ==
    /\ IdleFilter
    /\ IdleTags
    /\ IdleMail
    /\ \E event \in ExporterEvents, upstream \in ExporterUpstreams :
          exporter = [pc |-> "start", event |-> event, upstream |-> upstream]
    /\ today = 1
    /\ shPages = 1
    /\ listing = [pc |-> "idle"]
    /\ s3 = <<>>
    /\ pc = [r \in Runs |-> "NotStarted"]
    /\ data = [r \in Runs |-> EmptyDict]
    /\ locals = [r \in Runs |-> NoLocals]
    /\ fetchLog = [r \in Runs |-> <<>>]
    /\ aggLog = [r \in Runs |-> <<>>]
    /\ outbox = [r \in Runs |-> <<>>]
    /\ failure = [r \in Runs |-> ""]

\* lambda_handler: get_findings
ExporterGetFindings ==
    /\ exporter.pc = "start"
    /\ exporter' = [ pc |-> "filter", event |-> exporter.event,
                     upstream |-> exporter.upstream,
                     input_data |-> get_findings(exporter.upstream) ]
    /\ UNCHANGED <<filterVars, tagVars, mailVars, today, shPages, listing, s3, pc, data, locals,
                   fetchLog, aggLog, outbox, failure>>

\* lambda_handler: filter_data and write_to_csv
ExporterFilter ==
    /\ exporter.pc = "filter"
    /\ \E filtered_data \in {shexporter_filter_data(exporter.input_data, exporter.event)} :
          exporter' =
             IF filtered_data.raised
             THEN [ pc |-> "done", event |-> exporter.event,
                    upstream |-> exporter.upstream,
                    input_data |-> exporter.input_data,
                    ses |-> "not called", sent |-> <<>>, result |-> filtered_data ]
             ELSE [ pc |-> "send", event |-> exporter.event,
                    upstream |-> exporter.upstream,
                    input_data |-> exporter.input_data,
                    csv_content |-> write_to_csv(filtered_data.value) ]
    /\ UNCHANGED <<filterVars, tagVars, mailVars, today, shPages, listing, s3, pc, data, locals,
                   fetchLog, aggLog, outbox, failure>>

\* lambda_handler: send_email_with_attachment and the return statement
ExporterSend ==
    /\ exporter.pc = "send"
    /\ \E ses \in SesOutcomes :
       \E sending \in {send_email_with_attachment(exporter.csv_content, exporter.event, ses)} :
          exporter' = [ pc |-> "done", event |-> exporter.event,
                        upstream |-> exporter.upstream,
                        input_data |-> exporter.input_data,
                        ses |-> IF "to_emails" \in DOMAIN exporter.event THEN ses
                                ELSE "not called",
                        sent |-> sending.sent,
                        result |-> IF sending.ret.raised THEN sending.ret
                                   ELSE Returned([statusCode |-> 200]) ]
    /\ UNCHANGED <<filterVars, tagVars, mailVars, today, shPages, listing, s3, pc, data, locals,
                   fetchLog, aggLog, outbox, failure>>

NextExporter == ExporterGetFindings \/ ExporterFilter \/ ExporterSend

SpecExporter == InitExporter /\ [][NextExporter]_vars

\* C30: an invocation of the exporter that returns, returns statusCode 200;
\* it does so when SES refused the message with a client error, and no
\* message was sent then; and when the retrieval of the findings raised,
\* get_findings gave None and the invocation raised TypeError in filter_data
\* without getting to the SES call.
C30_Returns200OrFaults ==
    exporter.pc = "done" =>
       /\ ~exporter.result.raised => exporter.result.value.statusCode = 200
       /\ exporter.ses = "ClientError" =>
             /\ exporter.result = Returned([statusCode |-> 200])
             /\ exporter.sent = <<>>
       /\ exporter.upstream.raises =>
             /\ exporter.input_data = PyNone
             /\ exporter.result = Raised("TypeError")
             /\ exporter.ses = "not called"
             /\ exporter.sent = <<>>
       /\ exporter.result.raised =>
             \/ exporter.upstream.raises
             \/ exporter.result = Raised("IndexError")
             \/ "to_emails" \notin DOMAIN exporter.event
             \/ exporter.ses = "EndpointConnectionError"

\* The findings were retrieved, SES refused the message with a client error
\* and the invocation returned 200.
C30_ClientErrorStill200 ==
    /\ exporter.pc = "done"
    /\ exporter.ses = "ClientError"
    /\ ~exporter.upstream.raises
    /\ exporter.input_data.val # <<>>
    /\ exporter.sent = <<>>
    /\ exporter.result = Returned([statusCode |-> 200])

=============================================================================
